---- MODULE Spec2Model ----
(***************************************************************************)
(* Model of the graph builder (backend/app/graph_builder.py), the graph     *)
(* query engine (backend/app/graph_query_engine.py), the text-completion    *)
(* collaborator (backend/app/llm_analyzer.py) and the upload / query        *)
(* endpoints (backend/app/main.py).                                         *)
(*                                                                          *)
(* Strings are sequences of one-character strings, so that lower-casing     *)
(* and substring tests are computed and not assumed.  A graph value keeps   *)
(* the insertion order of nodes and edges, as networkx's dictionaries do.   *)
(***************************************************************************)
EXTENDS Integers, Sequences, FiniteSets, TLC

VARIABLES graph, parsed_data, current_graph, current_query_engine,
          uploaded_repo_path, uploaded_paper_path, current_paper_data,
          supplied, response

vars == <<graph, parsed_data, current_graph, current_query_engine,
          uploaded_repo_path, uploaded_paper_path, current_paper_data,
          supplied, response>>

globals == <<parsed_data, current_graph, current_query_engine,
             uploaded_repo_path, uploaded_paper_path, current_paper_data>>

None == "None"

\* before the first operation there is no response
NoResponse == [op |-> "none"]

(***************************************************************************)
(* Sequences and strings                                                    *)
(***************************************************************************)
Range(s) == {s[i] : i \in 1..Len(s)}

SeqsUpTo(S, n) == UNION {[1..k -> S] : k \in 0..n}

UpperChars == <<"A","B","C","D","E","F","G","H","I","J","K","L","M",
                "N","O","P","Q","R","S","T","U","V","W","X","Y","Z">>
LowerChars == <<"a","b","c","d","e","f","g","h","i","j","k","l","m",
                "n","o","p","q","r","s","t","u","v","w","x","y","z">>

\* str.lower() on one character
LowerChar(c) ==
    IF \E i \in 1..26 : UpperChars[i] = c
    THEN LowerChars[CHOOSE i \in 1..26 : UpperChars[i] = c]
    ELSE c

\* str.lower()
lower(s) == [i \in 1..Len(s) |-> LowerChar(s[i])]

\* Python's `needle in hay` on strings (the empty string is in every string)
in_str(needle, hay) ==
    \E i \in 0..(Len(hay) - Len(needle)) :
        \A j \in 1..Len(needle) : hay[i + j] = needle[j]

(***************************************************************************)
(* networkx.DiGraph: nodes and edges in insertion order, attributes by key  *)
(***************************************************************************)
EmptyGraph == [nodes |-> <<>>, data |-> <<>>, edges |-> <<>>, edata |-> <<>>]

\* attributes of a node that add_edge created implicitly (an empty dict)
NoAttrs == [type |-> None, name |-> None, modality |-> None]

has_node(g, n) == n \in Range(g.nodes)

has_edge(g, s, t) == <<s, t>> \in Range(g.edges)

NodeSet(g) == Range(g.nodes)

EdgeSet(g) == Range(g.edges)

\* DiGraph.add_node: a new id is appended; an existing id keeps its place
\* and has its attributes updated
add_node(g, n, attrs) ==
    IF has_node(g, n)
    THEN [g EXCEPT !.data = (n :> attrs) @@ g.data]
    ELSE [g EXCEPT !.nodes = Append(g.nodes, n),
                   !.data = (n :> attrs) @@ g.data]

\* the implicit node creation of DiGraph.add_edge
touch_node(g, n) ==
    IF has_node(g, n) THEN g
    ELSE [g EXCEPT !.nodes = Append(g.nodes, n),
                   !.data = (n :> NoAttrs) @@ g.data]

\* add_edge with an existing ordered pair left as it was
add_edge_keeping(g, s, t, attrs) ==
    LET g2 == touch_node(touch_node(g, s), t)
    IN  IF has_edge(g2, s, t) THEN g2
        ELSE [g2 EXCEPT !.edges = Append(g2.edges, <<s, t>>),
                        !.edata = (<<s, t>> :> attrs) @@ g2.edata]

\* DiGraph.add_edge: creates missing endpoints; an existing ordered pair
\* keeps its place and has its attributes updated (no parallel edge)
add_edge(g, s, t, attrs) ==
    LET g2 == touch_node(touch_node(g, s), t)
    IN  IF has_edge(g2, s, t)
        THEN [g2 EXCEPT !.edata = (<<s, t>> :> attrs) @@ g2.edata]
        ELSE [g2 EXCEPT !.edges = Append(g2.edges, <<s, t>>),
                        !.edata = (<<s, t>> :> attrs) @@ g2.edata]

\* DiGraph.clear
clear(g) == EmptyGraph

\* DiGraph.predecessors(n): sources of the edges into n, in insertion order
predecessors(g, n) ==
    LET into == SelectSeq(g.edges, LAMBDA e : e[2] = n)
    IN  [i \in 1..Len(into) |-> into[i][1]]

\* DiGraph.successors(n) = DiGraph.neighbors(n)
successors(g, n) ==
    LET from == SelectSeq(g.edges, LAMBDA e : e[1] = n)
    IN  [i \in 1..Len(from) |-> from[i][2]]

(***************************************************************************)
(* GraphBuilder                                                             *)
(***************************************************************************)
\* the guard before every add_edge of the builder
edge_endpoints_unchecked(g, rec) == TRUE

edge_endpoints_known(g, rec) ==
    has_node(g, rec.source) /\ has_node(g, rec.target)

\* rel.get('confidence', 70) and the like: the record's value, or the default
get_or(value, default) == IF value = None THEN default ELSE value

RelationshipConfidence == 70
PaperEdgeConfidence == 80
CrossModalConfidence == 70

\* build_graph, first loop: one code node per feature.  (The always-true test
\* on g2 makes TLC evaluate each iteration before the next one starts, which
\* keeps its evaluation stack flat on long lists.)
RECURSIVE add_features(_, _)
add_features(g, features) ==
    IF features = <<>> THEN g
    ELSE LET g2 == add_node(g, Head(features).id,
                        [type |-> "feature", name |-> Head(features).name,
                         modality |-> "code"])
         IN  IF Len(g2.nodes) >= 0 THEN add_features(g2, Tail(features)) ELSE g2

\* build_graph, second loop: one edge per relationship with known endpoints.
\* These edges carry no cross_modal / intra_paper key; every reader takes a
\* missing key as false.
RECURSIVE add_relationships(_, _)
add_relationships(g, rels) ==
    IF rels = <<>> THEN g
    ELSE LET rel == Head(rels)
             g2 == IF edge_endpoints_known(g, rel)
                   THEN add_edge(g, rel.source, rel.target,
                            [relation |-> rel.type,
                             confidence |-> get_or(rel.confidence, RelationshipConfidence),
                             cross_modal |-> FALSE, intra_paper |-> FALSE])
                   ELSE g
         IN  IF Len(g2.nodes) >= 0 THEN add_relationships(g2, Tail(rels)) ELSE g2

clear_skipped(g) == g

\* self.graph.clear() at the head of both build operations
clear_graph(g) == clear(g)

\* GraphBuilder.build_graph
build_graph(g, feature_data) ==
    add_relationships(add_features(clear_graph(g), feature_data.features),
                      feature_data.relationships)

RECURSIVE add_paper_nodes(_, _)
add_paper_nodes(g, paper_nodes) ==
    IF paper_nodes = <<>> THEN g
    ELSE add_paper_nodes(
            add_node(g, Head(paper_nodes).id,
                     [type |-> Head(paper_nodes).type,
                      name |-> Head(paper_nodes).name, modality |-> "paper"]),
            Tail(paper_nodes))

RECURSIVE add_code_nodes(_, _)
add_code_nodes(g, code_nodes) ==
    IF code_nodes = <<>> THEN g
    ELSE add_code_nodes(
            add_node(g, Head(code_nodes).id,
                     [type |-> get_or(Head(code_nodes).type, "feature"),
                      name |-> Head(code_nodes).name, modality |-> "code"]),
            Tail(code_nodes))

RECURSIVE add_paper_edges(_, _)
add_paper_edges(g, paper_edges) ==
    IF paper_edges = <<>> THEN g
    ELSE LET edge == Head(paper_edges)
             g2 == IF edge_endpoints_known(g, edge)
                   THEN add_edge(g, edge.source, edge.target,
                            [relation |-> edge.type,
                             confidence |-> get_or(edge.confidence, PaperEdgeConfidence),
                             cross_modal |-> FALSE, intra_paper |-> TRUE])
                   ELSE g
         IN  add_paper_edges(g2, Tail(paper_edges))

RECURSIVE add_cross_modal_edges(_, _)
add_cross_modal_edges(g, cross_modal_edges) ==
    IF cross_modal_edges = <<>> THEN g
    ELSE LET edge == Head(cross_modal_edges)
             g2 == IF edge_endpoints_known(g, edge)
                   THEN add_edge(g, edge.source, edge.target,
                            [relation |-> edge.type,
                             confidence |-> get_or(edge.confidence, CrossModalConfidence),
                             cross_modal |-> TRUE, intra_paper |-> FALSE])
                   ELSE g
         IN  add_cross_modal_edges(g2, Tail(cross_modal_edges))

\* GraphBuilder.build_unified_graph
build_unified_graph(g, paper_nodes, code_nodes, cross_modal_edges, paper_edges) ==
    add_cross_modal_edges(
        add_paper_edges(
            add_code_nodes(add_paper_nodes(clear_graph(g), paper_nodes), code_nodes),
            paper_edges),
        cross_modal_edges)

(***************************************************************************)
(* Inputs of the builder                                                    *)
(***************************************************************************)
MaxNodes == 2

PaperIds == {"paper_section_0"}
CodeIds == {"feature_0", "feature_1"}

Attention == <<"A","t","t","e","n","t","i","o","n">>
MultiHeadAttention == <<"M","u","l","t","i","H","e","a","d","A","t","t","e","n","t","i","o","n">>
Encoder == <<"E","n","c","o","d","e","r">>
Decoder == <<"D","e","c","o","d","e","r">>
EncoderLayer == <<"E","n","c","o","d","e","r"," ","L","a","y","e","r">>
DecoderLayer == <<"D","e","c","o","d","e","r"," ","L","a","y","e","r">>
Layer == <<"L","a","y","e","r">>

\* the display name that the extraction step gives each id
NameOf(id) ==
    CASE id = "paper_section_0" -> Attention
      [] id = "feature_0" -> MultiHeadAttention
      [] id = "feature_1" -> Encoder
      [] id = "feature_2" -> Decoder
      [] id = "feature_3" -> EncoderLayer
      [] id = "feature_4" -> DecoderLayer
      [] OTHER -> Layer

\* a feature as feature extraction emits it
Feature(id) == [id |-> id, name |-> NameOf(id), type |-> None]

\* a paper node as paper extraction emits it
PaperNode(id) == [id |-> id, name |-> NameOf(id), type |-> "paper_section"]

FeatureLists == {[i \in DOMAIN s |-> Feature(s[i])] : s \in SeqsUpTo(CodeIds, MaxNodes)}

\* no paper node, or one; a paper node may carry an id that a code node
\* carries too
PaperNodeLists == {<<>>} \cup {<<PaperNode(id)>> : id \in PaperIds \cup {"feature_0"}}

EdgeRecords(pairs, types) ==
    {[source |-> p[1], target |-> p[2], type |-> ty, confidence |-> None] :
        p \in pairs, ty \in types}

\* no record, or one
AtMostOne(records) == {<<>>} \cup {<<r>> : r \in records}

RelationshipLists ==
    AtMostOne(EdgeRecords({<<"feature_0", "feature_1">>, <<"feature_1", "feature_0">>,
                           <<"feature_0", "feature_0">>, <<"feature_0", "paper_section_0">>},
                          {"depends_on"}))

CrossModalLists ==
    AtMostOne(EdgeRecords({<<"paper_section_0", "feature_0">>, <<"paper_section_0", "feature_1">>,
                           <<"feature_0", "paper_section_0">>, <<"feature_0", "feature_1">>,
                           <<"paper_section_0", "paper_section_0">>},
                          {"implements", "related"}))

PaperEdgeLists ==
    AtMostOne(EdgeRecords({<<"paper_section_0", "paper_section_0">>,
                           <<"paper_section_0", "feature_0">>},
                          {"builds_on"}))

Ids(records) == {records[i].id : i \in DOMAIN records}
Pairs(records) == {<<records[i].source, records[i].target>> : i \in DOMAIN records}

(***************************************************************************)
(* The builder on its own: any sequence of build operations                 *)
(***************************************************************************)
\* what the last build operation was given, and whether its clear removed a
\* node that was not supplied again
Supplied(op, ids, pairs, before) ==
    [op |-> op, ids |-> ids, pairs |-> pairs,
     dropped |-> \E n \in NodeSet(before) : n \notin ids]

InitBuild ==
    /\ graph = EmptyGraph
    /\ parsed_data = None
    /\ current_graph = None
    /\ current_query_engine = None
    /\ uploaded_repo_path = None
    /\ uploaded_paper_path = None
    /\ current_paper_data = None
    /\ supplied = Supplied("init", {}, {}, EmptyGraph)
    /\ response = NoResponse

BuildGraph ==
    \E features \in FeatureLists, rels \in RelationshipLists :
        /\ graph' = build_graph(graph, [features |-> features, relationships |-> rels])
        /\ parsed_data' = "parsed"
        /\ supplied' = Supplied("build_graph", Ids(features), Pairs(rels), graph)
        /\ UNCHANGED <<current_graph, current_query_engine, uploaded_repo_path,
                       uploaded_paper_path, current_paper_data, response>>

BuildUnifiedGraph ==
    \E pn \in PaperNodeLists, cn \in FeatureLists,
       cm \in CrossModalLists, pe \in PaperEdgeLists :
        /\ graph' = build_unified_graph(graph, pn, cn, cm, pe)
        /\ supplied' = Supplied("build_unified_graph", Ids(pn) \cup Ids(cn),
                                Pairs(cm) \cup Pairs(pe), graph)
        /\ UNCHANGED <<globals, response>>

NextBuild == BuildGraph \/ BuildUnifiedGraph

SpecBuild == InitBuild /\ [][NextBuild]_vars

\* C1: after either build operation every edge of the graph has both its
\* endpoints among the graph's nodes, and a supplied edge record with an
\* endpoint that is not a node supplied to the same build adds nothing: the
\* node set is the supplied ids and the edge set is the supplied pairs whose
\* two endpoints were supplied, as if the record had been absent.
C1_UnknownEndpointAddsNothing ==
    /\ \A e \in EdgeSet(graph) : e[1] \in NodeSet(graph) /\ e[2] \in NodeSet(graph)
    /\ supplied.op # "init" =>
        /\ NodeSet(graph) = supplied.ids
        /\ EdgeSet(graph) =
              {p \in supplied.pairs : p[1] \in supplied.ids /\ p[2] \in supplied.ids}

\* a build that was given nodes and an edge record with an unknown endpoint
C1_Witness ==
    /\ supplied.op # "init"
    /\ supplied.ids # {}
    /\ \E p \in supplied.pairs : p[1] \notin supplied.ids \/ p[2] \notin supplied.ids

\* C2: after each call of a sequence of build operations the node set is
\* exactly the set of ids supplied to that call and every edge is one supplied
\* to that call; nothing of an earlier build survives unless supplied again.
C2_BuildReplaces ==
    supplied.op # "init" =>
        /\ NodeSet(graph) = supplied.ids
        /\ EdgeSet(graph) \subseteq supplied.pairs
        /\ DOMAIN graph.data = supplied.ids
        /\ DOMAIN graph.edata = EdgeSet(graph)

\* a later build whose clear removed a node of the earlier build
C2_Witness == supplied.op # "init" /\ supplied.dropped /\ supplied.ids # {}

(***************************************************************************)
(* GraphQueryEngine: the query classifier                                   *)
(***************************************************************************)
\* self.query_types: a dict, iterated in insertion order
query_types == <<
    [label |-> "path", keywords |-> <<
        <<"h","o","w">>,
        <<"i","m","p","l","e","m","e","n","t","e","d">>,
        <<"r","e","a","l","i","z","e">>,
        <<"f","r","o","m"," ","p","a","p","e","r"," ","t","o"," ","c","o","d","e">>,
        <<"c","h","a","i","n">>>>],
    [label |-> "dependency", keywords |-> <<
        <<"d","e","p","e","n","d","s">>,
        <<"r","e","q","u","i","r","e","s">>,
        <<"n","e","e","d","s">>,
        <<"p","r","e","r","e","q","u","i","s","i","t","e">>,
        <<"b","a","s","e","d"," ","o","n">>>>],
    [label |-> "gap", keywords |-> <<
        <<"m","i","s","s","i","n","g">>,
        <<"n","o","t"," ","i","m","p","l","e","m","e","n","t","e","d">>,
        <<"g","a","p","s">>,
        <<"l","a","c","k","i","n","g">>,
        <<"u","n","i","m","p","l","e","m","e","n","t","e","d">>>>],
    [label |-> "impact", keywords |-> <<
        <<"a","f","f","e","c","t">>,
        <<"m","o","d","i","f","y">>,
        <<"c","h","a","n","g","e">>,
        <<"i","m","p","a","c","t">>,
        <<"d","o","w","n","s","t","r","e","a","m">>,
        <<"b","r","e","a","k","s">>>>],
    [label |-> "summary", keywords |-> <<
        <<"s","u","m","m","a","r","i","z","e">>,
        <<"o","v","e","r","v","i","e","w">>,
        <<"e","x","p","l","a","i","n">>,
        <<"a","r","c","h","i","t","e","c","t","u","r","e">>,
        <<"s","t","r","u","c","t","u","r","e">>>>],
    [label |-> "find", keywords |-> <<
        <<"w","h","e","r","e">>,
        <<"l","o","c","a","t","e">>,
        <<"f","i","n","d">>,
        <<"s","h","o","w"," ","m","e">>,
        <<"w","h","i","c","h"," ","f","i","l","e","s">>>>],
    [label |-> "related", keywords |-> <<
        <<"r","e","l","a","t","e","d"," ","t","o">>,
        <<"c","o","n","n","e","c","t","e","d"," ","t","o">>,
        <<"a","s","s","o","c","i","a","t","e","d"," ","w","i","t","h">>,
        <<"l","i","n","k","e","d">>>>]>>

Labels == {query_types[i].label : i \in 1..Len(query_types)}

\* any(...) with the keyword compared to the whole query
any_keyword_equal(keywords, query_lower) ==
    \E k \in 1..Len(keywords) : keywords[k] = query_lower

\* any(keyword in query_lower for keyword in keywords)
any_keyword(keywords, query_lower) ==
    \E k \in 1..Len(keywords) : in_str(keywords[k], query_lower)

\* the loop of _classify_query from entry i of the table on, run backwards:
\* the last matching entry wins
RECURSIVE classify_last(_, _)
classify_last(i, query_lower) ==
    IF i > Len(query_types) THEN "related"
    ELSE LET rest == classify_last(i + 1, query_lower)
         IN  IF rest # "related" \/ ~any_keyword(query_types[i].keywords, query_lower)
             THEN rest
             ELSE query_types[i].label

\* the loop of _classify_query from entry i of the table on: the first entry
\* with a keyword in the lower-cased query returns its label
RECURSIVE classify_from(_, _)
classify_from(i, query_lower) ==
    IF i > Len(query_types) THEN "related"
    ELSE IF any_keyword(query_types[i].keywords, query_lower)
         THEN query_types[i].label
         ELSE classify_from(i + 1, query_lower)

\* GraphQueryEngine._classify_query
_classify_query(query) == classify_from(1, lower(query))

(***************************************************************************)
(* GraphQueryEngine: helpers                                                *)
(***************************************************************************)
\* Python's s[:n] on a list
prefix(s, n) == SubSeq(s, 1, IF Len(s) < n THEN Len(s) ELSE n)

\* the test with equality in place of containment
entity_matches_exact(node_name, entities) ==
    \E i \in 1..Len(entities) : lower(entities[i]) = node_name

\* the test of _find_nodes_by_entities: some entity is inside the node's
\* lower-cased name, or the name is inside the lower-cased entity
entity_matches(node_name, entities) ==
    \E i \in 1..Len(entities) :
        in_str(lower(entities[i]), node_name) \/ in_str(node_name, lower(entities[i]))

\* GraphQueryEngine._find_nodes_by_entities: the matching nodes, in node order
_find_nodes_by_entities(g, entities, modality) ==
    SelectSeq(g.nodes,
              LAMBDA n : /\ (modality = None \/ g.data[n].modality = modality)
                         /\ entity_matches(lower(g.data[n].name), entities))

NeighborhoodCap == 30

\* one iteration of the hop loop: the successors and predecessors of every
\* node of the set that is in the graph are added
grow(g, subgraph_nodes) ==
    subgraph_nodes \cup
    UNION {Range(successors(g, n)) \cup Range(predecessors(g, n)) :
              n \in {m \in subgraph_nodes : has_node(g, m)}}

\* the hop loop of _get_neighborhood_subgraph: the size is tested after each
\* whole iteration, and only to leave the loop
RECURSIVE expand(_, _, _)
expand(g, subgraph_nodes, hops) ==
    IF hops = 0 THEN subgraph_nodes
    ELSE LET grown == grow(g, subgraph_nodes)
         IN  IF Cardinality(grown) > NeighborhoodCap THEN grown
             ELSE expand(g, grown, hops - 1)

\* GraphQueryEngine._get_neighborhood_subgraph; list(set) has no order that
\* the code fixes, so nodes is a set
_get_neighborhood_subgraph(g, seed_nodes, hops) ==
    LET subgraph_nodes == expand(g, Range(seed_nodes), hops)
        inside == SelectSeq(g.edges,
                     LAMBDA e : e[1] \in subgraph_nodes /\ e[2] \in subgraph_nodes)
    IN  [nodes |-> subgraph_nodes,
         edges |-> [i \in 1..Len(inside) |->
                       [source |-> inside[i][1], target |-> inside[i][2],
                        relation |-> g.edata[inside[i]].relation]]]

(***************************************************************************)
(* GraphQueryEngine: the reasoning strategies                               *)
(***************************************************************************)
TargetCap == 3
FirstHopCap == 5
SecondHopCap == 3

\* an evidence entry for the edge from -> to; hop 1 entries are those built
\* for a resolved node, hop 2 entries those built for one of its neighbours
Entry(g, from, to, hop) ==
    [from |-> from, to |-> to, relation |-> g.edata[<<from, to>>].relation,
     from_name |-> g.data[from].name, to_name |-> g.data[to].name, hop |-> hop]

RECURSIVE Flatten(_)
Flatten(seqs) == IF seqs = <<>> THEN <<>> ELSE Head(seqs) \o Flatten(Tail(seqs))

\* the entries for one dependency with every predecessor of dep walked
dependency_entries_uncapped(g, node, dep) ==
    LET deps2 == predecessors(g, dep)
    IN  <<Entry(g, dep, node, 1)>> \o [i \in 1..Len(deps2) |-> Entry(g, deps2[i], dep, 2)]

\* the entries for one dependency `dep` of `node`: the edge dep -> node, then
\* the edges into dep from its first SecondHopCap predecessors
dependency_entries(g, node, dep) ==
    LET deps2 == prefix(predecessors(g, dep), SecondHopCap)
    IN  <<Entry(g, dep, node, 1)>> \o [i \in 1..Len(deps2) |-> Entry(g, deps2[i], dep, 2)]

\* the walk with only the first resolved target examined
dependency_targets_first(target_nodes) == prefix(target_nodes, 1)

\* for node in target_nodes[:3]
dependency_targets(target_nodes) == prefix(target_nodes, TargetCap)

\* GraphQueryEngine._handle_dependency_query
_handle_dependency_query(g, entities) ==
    LET target_nodes == dependency_targets(_find_nodes_by_entities(g, entities, None))
        per_node(node) ==
            LET deps == prefix(predecessors(g, node), FirstHopCap)
            IN  Flatten([i \in 1..Len(deps) |-> dependency_entries(g, node, deps[i])])
        dependencies == Flatten([i \in 1..Len(target_nodes) |-> per_node(target_nodes[i])])
    IN  [type |-> "dependency",
         dependencies |-> dependencies,
         nodes |-> UNION {{dependencies[i].from, dependencies[i].to} :
                             i \in 1..Len(dependencies)},
         count |-> Len(dependencies)]

\* the entries for one successor with the second hop left out
impact_entries_one_hop(g, node, succ) == <<Entry(g, node, succ, 1)>>

\* the entries for one successor `succ` of `node`: the edge node -> succ, then
\* the edges from succ to its first SecondHopCap successors
impact_entries(g, node, succ) ==
    LET succs2 == prefix(successors(g, succ), SecondHopCap)
    IN  <<Entry(g, node, succ, 1)>> \o [i \in 1..Len(succs2) |-> Entry(g, succ, succs2[i], 2)]

\* successors[:5] of a seed
impact_first_hop(g, node) == prefix(successors(g, node), FirstHopCap)

\* GraphQueryEngine._handle_impact_query
_handle_impact_query(g, entities) ==
    LET source_nodes == prefix(_find_nodes_by_entities(g, entities, None), TargetCap)
        per_node(node) ==
            LET succs == impact_first_hop(g, node)
            IN  Flatten([i \in 1..Len(succs) |-> impact_entries(g, node, succs[i])])
        affected == Flatten([i \in 1..Len(source_nodes) |-> per_node(source_nodes[i])])
    IN  [type |-> "impact",
         affected |-> affected,
         nodes |-> UNION {{affected[i].from, affected[i].to} : i \in 1..Len(affected)},
         count |-> Len(affected)]

\* the test of the gap loop with the cross_modal flag ignored
has_implementation_any_edge(g, node) ==
    \E i \in 1..Len(successors(g, node)) :
        g.edata[<<node, successors(g, node)[i]>>].relation \in {"implements", "describes"}

\* the inner loop of _handle_gap_query: some outgoing edge is flagged
\* cross_modal and has relation 'implements' or 'describes'
has_implementation(g, node) ==
    \E i \in 1..Len(successors(g, node)) :
        LET edge_data == g.edata[<<node, successors(g, node)[i]>>]
        IN  edge_data.cross_modal /\ edge_data.relation \in {"implements", "describes"}

\* GraphQueryEngine._handle_gap_query
_handle_gap_query(g) ==
    LET gap_nodes == SelectSeq(g.nodes,
                        LAMBDA n : g.data[n].modality = "paper" /\ ~has_implementation(g, n))
    IN  [type |-> "gap",
         gaps |-> [i \in 1..Len(gap_nodes) |->
                     [node |-> gap_nodes[i], name |-> g.data[gap_nodes[i]].name,
                      type |-> g.data[gap_nodes[i]].type,
                      reason |-> "No code implementation found"]],
         nodes |-> gap_nodes,
         count |-> Len(gap_nodes)]

\* DiGraph.in_degree / out_degree / degree (a self-loop counts in both)
in_degree(g, n) == Len(predecessors(g, n))

out_degree(g, n) == Len(successors(g, n))

degree(g, n) == in_degree(g, n) + out_degree(g, n)

\* sorted(items, key, reverse=True) on the nodes of seq: descending key, and
\* the order of seq among equal keys (Python's sort is stable)
sorted_desc(seq, key(_)) ==
    LET keys == <<>> \o [i \in 1..Len(seq) |-> key(seq[i])]
        before(i) == Cardinality({j \in 1..Len(seq) :
                        keys[j] > keys[i] \/ (keys[j] = keys[i] /\ j < i)})
    IN  [r \in 1..Len(seq) |-> seq[CHOOSE i \in 1..Len(seq) : before(i) = r - 1]]

\* breadth-first search from a frontier: the number of edges of a shortest
\* directed path to target, or -1 when there is none
RECURSIVE bfs_distance(_, _, _, _, _)
bfs_distance(g, frontier, visited, d, target) ==
    IF target \in frontier THEN d
    ELSE IF frontier = {} THEN -1
    ELSE LET next == UNION {Range(successors(g, n)) : n \in frontier} \ visited
         IN  bfs_distance(g, next, visited \cup next, d + 1, target)

\* the directed paths from source to target with exactly d edges
RECURSIVE paths_of_length(_, _, _, _)
paths_of_length(g, source, target, d) ==
    IF d = 0 THEN (IF source = target THEN {<<source>>} ELSE {})
    ELSE UNION {{<<source>> \o p : p \in paths_of_length(g, n, target, d - 1)} :
                   n \in Range(successors(g, source))}

\* every directed path without a repeated node, shortest or not
RECURSIVE simple_paths(_, _, _, _)
simple_paths(g, source, target, seen) ==
    IF source = target THEN {<<source>>}
    ELSE UNION {{<<source>> \o p : p \in simple_paths(g, n, target, seen \cup {n})} :
                   n \in Range(successors(g, source)) \ seen}

\* a path-finder that returns any path
any_path(g, source, target) == simple_paths(g, source, target, {source})

\* nx.shortest_path(G, source, target): networkx returns one shortest path and
\* does not say which; the set holds every path it may return, and is empty
\* when it raises NetworkXNoPath
shortest_paths(g, source, target) ==
    LET d == bfs_distance(g, {source}, {source}, 0, target)
    IN  IF d < 0 THEN {} ELSE paths_of_length(g, source, target, d)

\* GraphQueryEngine._get_path_details
_get_path_details(g, path) ==
    [nodes |-> path,
     steps |-> [i \in 1..(Len(path) - 1) |->
                  [from |-> path[i], to |-> path[i + 1],
                   from_name |-> g.data[path[i]].name,
                   to_name |-> g.data[path[i + 1]].name,
                   relation |-> g.edata[<<path[i], path[i + 1]>>].relation]],
     length |-> Len(path)]

PathSeedCap == 3

\* the double loop of _handle_path_query over (paper, code) pairs: a pair
\* with no path is skipped; every way of picking one shortest path per pair
RECURSIVE paths_found_choices(_, _)
paths_found_choices(g, pairs) ==
    IF pairs = <<>> THEN {<<>>}
    ELSE LET found == shortest_paths(g, Head(pairs)[1], Head(pairs)[2])
             rest == paths_found_choices(g, Tail(pairs))
         IN  IF found = {} THEN rest
             ELSE {<<_get_path_details(g, p)>> \o r : p \in found, r \in rest}

\* the Path strategy without its neighbourhood fall-back
_handle_path_query_paths_only(g, entities) ==
    LET paper_nodes == _find_nodes_by_entities(g, entities, "paper")
        code_nodes == _find_nodes_by_entities(g, entities, "code")
        papers == prefix(paper_nodes, PathSeedCap)
        codes == prefix(code_nodes, PathSeedCap)
        pairs == Flatten([i \in 1..Len(papers) |->
                            [j \in 1..Len(codes) |-> <<papers[i], codes[j]>>]])
    IN  {[type |-> "path", paths |-> paths_found,
          nodes |-> UNION {Range(paths_found[i].nodes) : i \in 1..Len(paths_found)},
          count |-> Len(paths_found)] : paths_found \in paths_found_choices(g, pairs)}

\* GraphQueryEngine._handle_path_query: the set of evidence records it may
\* return (one per choice of shortest paths)
_handle_path_query(g, entities) ==
    LET paper_nodes == _find_nodes_by_entities(g, entities, "paper")
        code_nodes == _find_nodes_by_entities(g, entities, "code")
        papers == prefix(paper_nodes, PathSeedCap)
        codes == prefix(code_nodes, PathSeedCap)
        pairs == Flatten([i \in 1..Len(papers) |->
                            [j \in 1..Len(codes) |-> <<papers[i], codes[j]>>]])
        nodes_in(paths_found) ==
            IF paths_found = <<>> /\ (paper_nodes # <<>> \/ code_nodes # <<>>)
            THEN _get_neighborhood_subgraph(g, paper_nodes \o code_nodes, 2).nodes
            ELSE UNION {Range(paths_found[i].nodes) : i \in 1..Len(paths_found)}
    IN  {[type |-> "path", paths |-> paths_found, nodes |-> nodes_in(paths_found),
          count |-> Len(paths_found)] : paths_found \in paths_found_choices(g, pairs)}

TopCap == 10
BridgeCap == 5

\* nx.degree_centrality as a fraction: degree / (n - 1), and 1 for every node
\* of a graph of at most one node
degree_centrality(g, n) ==
    IF Len(g.nodes) <= 1 THEN [num |-> 1, den |-> 1]
    ELSE [num |-> degree(g, n), den |-> Len(g.nodes) - 1]

\* the number of shortest paths from s to t, and of those through v
sigma(g, s, t) == Cardinality(shortest_paths(g, s, t))

sigma_through(g, s, t, v) == Cardinality({p \in shortest_paths(g, s, t) : v \in Range(p)})

RECURSIVE Product(_)
Product(s) == IF s = <<>> THEN 1 ELSE Head(s) * Product(Tail(s))

RECURSIVE Sum(_)
Sum(s) == IF s = <<>> THEN 0 ELSE Head(s) + Sum(Tail(s))

\* nx.betweenness_centrality up to its positive normalisation factor: the sum
\* over ordered pairs (s, t), s # t, both different from v, of the fraction of
\* shortest s-t paths through v, times the common denominator of the fractions
betweenness(g, v) ==
    LET others == SelectSeq(g.nodes, LAMBDA n : n # v)
        pairs == SelectSeq(Flatten([i \in 1..Len(others) |->
                                      [j \in 1..Len(others) |-> <<others[i], others[j]>>]]),
                           LAMBDA p : p[1] # p[2] /\ sigma(g, p[1], p[2]) > 0)
        all == SelectSeq(Flatten([i \in 1..Len(g.nodes) |->
                                    [j \in 1..Len(g.nodes) |-> <<g.nodes[i], g.nodes[j]>>]]),
                         LAMBDA p : p[1] # p[2] /\ sigma(g, p[1], p[2]) > 0)
        common == Product([i \in 1..Len(all) |-> sigma(g, all[i][1], all[i][2])])
    IN  Sum([i \in 1..Len(pairs) |->
               sigma_through(g, pairs[i][1], pairs[i][2], v)
                  * (common \div sigma(g, pairs[i][1], pairs[i][2]))])

\* the summary with the first 10 nodes in node order as key concepts
_handle_summary_query_unsorted(g) ==
    LET top_nodes == prefix(g.nodes, TopCap)
        bridge_nodes == IF Len(g.nodes) > 2
                        THEN prefix(sorted_desc(g.nodes, LAMBDA n : betweenness(g, n)),
                                    BridgeCap)
                        ELSE <<>>
    IN  [type |-> "summary",
         key_concepts |-> [i \in 1..Len(top_nodes) |->
                             [node |-> top_nodes[i],
                              name |-> g.data[top_nodes[i]].name,
                              type |-> g.data[top_nodes[i]].type,
                              modality |-> g.data[top_nodes[i]].modality,
                              centrality |-> degree_centrality(g, top_nodes[i]),
                              in_degree |-> in_degree(g, top_nodes[i]),
                              out_degree |-> out_degree(g, top_nodes[i])]],
         bridge_nodes |-> bridge_nodes,
         nodes |-> Range(top_nodes),
         graph_stats |->
            [total_nodes |-> Len(g.nodes),
             total_edges |-> Len(g.edges),
             paper_nodes |-> Len(SelectSeq(g.nodes, LAMBDA n : g.data[n].modality = "paper")),
             code_nodes |-> Len(SelectSeq(g.nodes, LAMBDA n : g.data[n].modality = "code"))]]

\* GraphQueryEngine._handle_summary_query (the record has no 'count')
_handle_summary_query(g) ==
    LET top_nodes == prefix(sorted_desc(g.nodes, LAMBDA n : degree(g, n)), TopCap)
        bridge_nodes == IF Len(g.nodes) > 2
                        THEN prefix(sorted_desc(g.nodes, LAMBDA n : betweenness(g, n)),
                                    BridgeCap)
                        ELSE <<>>
    IN  [type |-> "summary",
         key_concepts |-> [i \in 1..Len(top_nodes) |->
                             [node |-> top_nodes[i],
                              name |-> g.data[top_nodes[i]].name,
                              type |-> g.data[top_nodes[i]].type,
                              modality |-> g.data[top_nodes[i]].modality,
                              centrality |-> degree_centrality(g, top_nodes[i]),
                              in_degree |-> in_degree(g, top_nodes[i]),
                              out_degree |-> out_degree(g, top_nodes[i])]],
         bridge_nodes |-> bridge_nodes,
         nodes |-> Range(top_nodes),
         graph_stats |->
            [total_nodes |-> Len(g.nodes),
             total_edges |-> Len(g.edges),
             paper_nodes |-> Len(SelectSeq(g.nodes, LAMBDA n : g.data[n].modality = "paper")),
             code_nodes |-> Len(SelectSeq(g.nodes, LAMBDA n : g.data[n].modality = "code"))]]

FindCap == 10

\* GraphQueryEngine._handle_find_query: a location per resolved node (at most
\* FindCap); nodes is the whole list of resolved nodes
_handle_find_query(g, entities) ==
    LET target_nodes == _find_nodes_by_entities(g, entities, None)
        located == prefix(target_nodes, FindCap)
    IN  [type |-> "find",
         locations |-> [i \in 1..Len(located) |->
                          [node |-> located[i], name |-> g.data[located[i]].name,
                           type |-> g.data[located[i]].type,
                           kind |-> IF g.data[located[i]].modality = "code"
                                    THEN "files" ELSE "description"]],
         nodes |-> target_nodes,
         count |-> Len(located)]

CentralSeedCap == 5

\* the strategy without the central seeds: only matched nodes seed it
_handle_related_query_unseeded(g, entities) ==
    LET subgraph == _get_neighborhood_subgraph(g, _find_nodes_by_entities(g, entities, None), 2)
    IN  [type |-> "related", nodes |-> subgraph.nodes, edges |-> subgraph.edges,
         count |-> Cardinality(subgraph.nodes)]

\* GraphQueryEngine._handle_related_query
_handle_related_query(g, entities) ==
    LET matched == _find_nodes_by_entities(g, entities, None)
        seed_nodes == IF matched # <<>> THEN matched
                      ELSE prefix(sorted_desc(g.nodes, LAMBDA n : degree(g, n)),
                                  CentralSeedCap)
        subgraph == _get_neighborhood_subgraph(g, seed_nodes, 2)
    IN  [type |-> "related", nodes |-> subgraph.nodes, edges |-> subgraph.edges,
         count |-> Cardinality(subgraph.nodes)]

(***************************************************************************)
(* GraphQueryEngine: the entity resolver                                    *)
(***************************************************************************)
DigitChars == <<"0","1","2","3","4","5","6","7","8","9">>

IsUpper(c) == c \in Range(UpperChars)
IsLower(c) == c \in Range(LowerChars)
\* \w
IsWord(c) == IsUpper(c) \/ IsLower(c) \/ c \in Range(DigitChars) \/ c = "_"
\* \s
IsSpace(c) == c \in {" ", "\t", "\n", "\r"}

SetMin(S) == CHOOSE x \in S : \A y \in S : x <= y
SetMax(S) == CHOOSE x \in S : \A y \in S : x >= y

\* re.findall(r'"([^"]+)"', query), scanning from position i
RECURSIVE quoted_from(_, _)
quoted_from(q, i) ==
    IF i > Len(q) THEN <<>>
    ELSE IF q[i] # "\"" THEN quoted_from(q, i + 1)
    ELSE LET closing == {j \in (i + 1)..Len(q) : q[j] = "\""}
         IN  IF closing = {} THEN <<>>
             ELSE IF SetMin(closing) = i + 1 THEN quoted_from(q, i + 1)
             ELSE <<SubSeq(q, i + 1, SetMin(closing) - 1)>>
                     \o quoted_from(q, SetMin(closing) + 1)

\* the last position of the run of characters satisfying Is that starts at i
\* (i - 1 when the run is empty)
run_end(q, i, Is(_)) ==
    SetMin({k \in i..(Len(q) + 1) : k = Len(q) + 1 \/ ~Is(q[k])}) - 1

\* [A-Z][a-z]+ at position i: the position of its last character, or 0
cap_word_end(q, i) ==
    IF i <= Len(q) /\ IsUpper(q[i]) /\ run_end(q, i + 1, IsLower) >= i + 1
    THEN run_end(q, i + 1, IsLower)
    ELSE 0

\* the positions where (?:\s+[A-Z][a-z]+)* may stop after a word ending at e
RECURSIVE phrase_ends(_, _)
phrase_ends(q, e) ==
    LET spaces == run_end(q, e + 1, IsSpace)
        next == IF spaces >= e + 1 THEN cap_word_end(q, spaces + 1) ELSE 0
    IN  IF next = 0 THEN {e} ELSE {e} \cup phrase_ends(q, next)

\* re.findall(r'\b[A-Z][a-z]+(?:\s+[A-Z][a-z]+)*\b', query), scanning from i
RECURSIVE cap_phrases_from(_, _)
cap_phrases_from(q, i) ==
    IF i > Len(q) THEN <<>>
    ELSE LET first == IF i = 1 \/ ~IsWord(q[i - 1]) THEN cap_word_end(q, i) ELSE 0
             ends == IF first = 0 THEN {}
                     ELSE {e \in phrase_ends(q, first) : e = Len(q) \/ ~IsWord(q[e + 1])}
         IN  IF ends = {} THEN cap_phrases_from(q, i + 1)
             ELSE <<SubSeq(q, i, SetMax(ends))>> \o cap_phrases_from(q, SetMax(ends) + 1)

\* the names of the nodes whose lower-cased name is in the lower-cased query
names_in_query(g, query) ==
    {g.data[n].name : n \in {m \in NodeSet(g) :
        g.data[m].name # <<>> /\ in_str(lower(g.data[m].name), lower(query))}}

EntityCap == 5

\* some order of the members of a set
RECURSIVE SetToSeq(_)
SetToSeq(S) == IF S = {} THEN <<>>
               ELSE LET x == CHOOSE y \in S : TRUE IN <<x>> \o SetToSeq(S \ {x})

\* the resolver without set(): the first five of the list as collected
_extract_entities_listed(g, query) ==
    {prefix(quoted_from(query, 1) \o cap_phrases_from(query, 1)
                \o SetToSeq(names_in_query(g, query)), EntityCap)}

\* GraphQueryEngine._extract_entities: list(set(entities))[:5].  The order of
\* a set is not fixed by the code, so with more than five candidates any five
\* may be returned: the result is the set of entity lists it may return.
_extract_entities(g, query) ==
    LET all == Range(quoted_from(query, 1)) \cup Range(cap_phrases_from(query, 1))
                  \cup names_in_query(g, query)
    IN  IF Cardinality(all) <= EntityCap THEN {SetToSeq(all)}
        ELSE {SetToSeq(S) : S \in {T \in SUBSET all : Cardinality(T) = EntityCap}}

(***************************************************************************)
(* The text-completion collaborator and the evidence renderer               *)
(***************************************************************************)
\* what a call of the collaborator did: returned text, or raised
Returned(text) == [raised |-> FALSE, text |-> text]
Raised == [raised |-> TRUE, text |-> <<>>]

\* LLMAnalyzer._call_llm: the completion, or, when the client call raises, an
\* error-describing string; it never raises an Exception itself
_call_llm(client) ==
    IF client = "ok" THEN Returned(<<"completion">>)
    ELSE Returned(<<"Error calling LLM: ", "client error">>)

\* GraphQueryEngine._generate_fallback_answer
_generate_fallback_answer(evidence) ==
    LET etype == IF "type" \in DOMAIN evidence THEN evidence.type ELSE "unknown"
        count == IF "count" \in DOMAIN evidence THEN evidence.count ELSE 0
    IN  <<"Found ", ToString(count), " ", etype, " results in the graph.",
          " Check the visualization for details.">>

\* the renderer with the exception of the call passed on to the caller
_enhance_with_llm_reraise(call, evidence) ==
    IF call.raised THEN [failed |-> TRUE, answer |-> <<>>, calls |-> 1]
    ELSE [failed |-> FALSE, answer |-> call.text, calls |-> 1]

\* GraphQueryEngine._enhance_with_llm, given what its one call of
\* self.llm._call_llm did: the returned text as it is, or the fallback
\* sentence when the call raised
_enhance_with_llm(call, evidence) ==
    IF call.raised
    THEN [failed |-> FALSE, answer |-> _generate_fallback_answer(evidence), calls |-> 1]
    ELSE [failed |-> FALSE, answer |-> call.text, calls |-> 1]

(***************************************************************************)
(* GraphQueryEngine.process_query                                           *)
(***************************************************************************)
\* the routing of process_query: the evidence records the selected strategy
\* may return
strategy_results(g, query_type, entities) ==
    CASE query_type = "path" -> _handle_path_query(g, entities)
      [] query_type = "dependency" -> {_handle_dependency_query(g, entities)}
      [] query_type = "gap" -> {_handle_gap_query(g)}
      [] query_type = "impact" -> {_handle_impact_query(g, entities)}
      [] query_type = "summary" -> {_handle_summary_query(g)}
      [] query_type = "find" -> {_handle_find_query(g, entities)}
      [] OTHER -> {_handle_related_query(g, entities)}

\* the record process_query returns for one evidence record, or the failure
\* it raises
query_result(query, query_type, result, call) ==
    LET enhanced == _enhance_with_llm(call, result)
    IN  IF enhanced.failed THEN [op |-> "query", status |-> "raised"]
        ELSE [op |-> "query", status |-> "ok",
              query |-> query,
              query_type |-> query_type,
              answer |-> enhanced.answer,
              graph_evidence |-> result,
              highlighted_nodes |-> result.nodes,
              paths |-> IF "paths" \in DOMAIN result THEN result.paths ELSE <<>>,
              llm_calls |-> enhanced.calls]

\* GraphQueryEngine.process_query: the set of records it may return
process_query(g, query, call) ==
    LET query_type == _classify_query(query)
    IN  UNION {{query_result(query, query_type, result, call) :
                   result \in strategy_results(g, query_type, entities)} :
               entities \in _extract_entities(g, query)}

(***************************************************************************)
(* Query texts: up to MaxFragments fragments, concatenated                  *)
(***************************************************************************)
MaxFragments == 2

Fragments == {
    <<"h","o","w">>,
    <<"d","e","p","e","n","d","s">>,
    <<"m","i","s","s","i","n","g">>,
    <<"D","e","p","e","n","d","s">>,
    <<"M","I","S","S","I","N","G">>,
    <<"s">>,
    <<" ">>,
    <<"w","h","a","t"," ","i","s">>,
    <<"r","e","q","u","i","r","e","s">>,
    <<"n","o","t"," ","i","m","p","l","e","m","e","n","t","e","d">>,
    <<"c","h","a","n","g","e">>,
    <<"o","v","e","r","v","i","e","w">>,
    <<"w","h","e","r","e">>,
    <<"l","i","n","k","e","d">>}

RECURSIVE Concat(_)
Concat(parts) == IF parts = <<>> THEN <<>> ELSE Head(parts) \o Concat(Tail(parts))

Queries == {Concat(parts) : parts \in SeqsUpTo(Fragments, MaxFragments)}

(***************************************************************************)
(* The classifier on its own: one query text, classified                    *)
(***************************************************************************)
InitClassify ==
    /\ graph = EmptyGraph
    /\ parsed_data = None
    /\ current_graph = None
    /\ current_query_engine = None
    /\ uploaded_repo_path = None
    /\ uploaded_paper_path = None
    /\ current_paper_data = None
    /\ supplied \in {[op |-> "classify", query |-> q] : q \in Queries}
    /\ response = NoResponse

ClassifyQuery ==
    /\ response.op = "none"
    /\ response' = [op |-> "classify", query_type |-> _classify_query(supplied.query)]
    /\ UNCHANGED <<graph, globals, supplied>>

NextClassify == ClassifyQuery

SpecClassify == InitClassify /\ [][NextClassify]_vars

Depends == <<"d","e","p","e","n","d","s">>
Missing == <<"m","i","s","s","i","n","g">>

\* the trigger substrings of the entry labelled l occur in the lower-cased q
Triggers(l, q) ==
    \E i \in 1..Len(query_types) :
        /\ query_types[i].label = l
        /\ \E k \in 1..Len(query_types[i].keywords) :
              in_str(query_types[i].keywords[k], lower(q))

\* C9 as stated: every query whose lower-cased text contains "depends" is
\* classified 'dependency' and every one that contains "missing" is
\* classified 'gap', whatever else the text contains.
C9_DependsMissingAlways ==
    response.op = "classify" =>
        /\ in_str(Depends, lower(supplied.query)) => response.query_type = "dependency"
        /\ in_str(Missing, lower(supplied.query)) => response.query_type = "gap"

\* C9 amended: "depends" yields 'dependency' when no trigger of 'path' occurs
\* in the lower-cased text, and "missing" yields 'gap' when no trigger of
\* 'path' or 'dependency' occurs.
C9_DependsMissingUnlessEarlier ==
    response.op = "classify" =>
        /\ (in_str(Depends, lower(supplied.query)) /\ ~Triggers("path", supplied.query))
              => response.query_type = "dependency"
        /\ (in_str(Missing, lower(supplied.query)) /\ ~Triggers("path", supplied.query)
              /\ ~Triggers("dependency", supplied.query))
              => response.query_type = "gap"

\* a classified query with "missing" in upper case and no earlier trigger
C9_Witness ==
    /\ response.op = "classify"
    /\ in_str(Missing, lower(supplied.query))
    /\ ~in_str(Missing, supplied.query)
    /\ response.query_type = "gap"

LabelOrder == <<"path", "dependency", "gap", "impact", "summary", "find", "related">>

\* C10: the label is one of the seven; it is the first label of the order
\* path, dependency, gap, impact, summary, find, related with a trigger in the
\* lower-cased query, and 'related' when no trigger occurs.
C10_FirstMatchingLabel ==
    response.op = "classify" =>
        /\ response.query_type \in Range(LabelOrder)
        /\ \A i \in 1..Len(LabelOrder) :
              (Triggers(LabelOrder[i], supplied.query)
                 /\ \A j \in 1..(i - 1) : ~Triggers(LabelOrder[j], supplied.query))
              => response.query_type = LabelOrder[i]
        /\ (\A i \in 1..Len(LabelOrder) : ~Triggers(LabelOrder[i], supplied.query))
              => response.query_type = "related"

\* a classified query with triggers of two labels, the earlier one returned
C10_Witness ==
    /\ response.op = "classify"
    /\ Triggers("path", supplied.query)
    /\ Triggers("gap", supplied.query)
    /\ response.query_type = "path"

(***************************************************************************)
(* Neighbourhood expansion on its own: star graphs of every size up to      *)
(* MaxLeaves, expanded from the hub, from a leaf or from every node         *)
(***************************************************************************)
MaxLeaves == 32

\* feature_{idx} for idx = 0, 1, ...
FeatureIds == <<
    "feature_0", "feature_1", "feature_2", "feature_3", "feature_4",
    "feature_5", "feature_6", "feature_7", "feature_8", "feature_9",
    "feature_10", "feature_11", "feature_12", "feature_13", "feature_14",
    "feature_15", "feature_16", "feature_17", "feature_18", "feature_19",
    "feature_20", "feature_21", "feature_22", "feature_23", "feature_24",
    "feature_25", "feature_26", "feature_27", "feature_28", "feature_29",
    "feature_30", "feature_31", "feature_32", "feature_33", "feature_34",
    "feature_35", "feature_36", "feature_37", "feature_38", "feature_39">>

Relationship(source, target) ==
    [source |-> source, target |-> target, type |-> "depends_on", confidence |-> None]

\* feature_0 and `leaves` more features; every other feature depends on
\* feature_0 (outward) or feature_0 on every other feature
StarFeatureData(leaves, outward) ==
    [features |-> [i \in 1..(leaves + 1) |-> Feature(FeatureIds[i])],
     relationships |-> [i \in 1..leaves |->
                          IF outward THEN Relationship(FeatureIds[1], FeatureIds[i + 1])
                          ELSE Relationship(FeatureIds[i + 1], FeatureIds[1])]]

InitNeighborhood ==
    /\ \E leaves \in 0..MaxLeaves, outward \in BOOLEAN :
          graph = build_graph(EmptyGraph, StarFeatureData(leaves, outward))
    /\ parsed_data = "parsed"
    /\ current_graph = "graph"
    /\ current_query_engine = "engine"
    /\ uploaded_repo_path = "repo"
    /\ uploaded_paper_path = None
    /\ current_paper_data = None
    /\ \E seeds \in {"hub", "leaf", "all", "none"}, hops \in 1..2 :
          supplied = [op |-> "neighborhood", hops |-> hops,
                      seed_nodes |-> CASE seeds = "hub" -> <<"feature_0">>
                                       [] seeds = "leaf" -> <<"feature_1">>
                                       [] seeds = "all" -> graph.nodes
                                       [] OTHER -> <<>>]
    /\ response = NoResponse

NeighborhoodSubgraph ==
    /\ response.op = "none"
    /\ response' = [op |-> "neighborhood",
                    subgraph |-> _get_neighborhood_subgraph(graph, supplied.seed_nodes,
                                                           supplied.hops)]
    /\ UNCHANGED <<graph, globals, supplied>>

NextNeighborhood == NeighborhoodSubgraph

SpecNeighborhood == InitNeighborhood /\ [][NextNeighborhood]_vars

\* C3: neighbourhood expansion never returns more than 30 nodes, for every
\* seed list, hop count and graph.
C3_NeighborhoodWithinCap ==
    response.op = "neighborhood" =>
        Cardinality(response.subgraph.nodes) <= NeighborhoodCap

(***************************************************************************)
(* Dependency and Impact on their own: a feature graph of up to             *)
(* MaxDualNodes features and MaxDualEdges relationships, one entity list    *)
(***************************************************************************)
MaxDualNodes == 4
MaxDualEdges == 2

\* feature_1 .. feature_k
DualFeatures(k) == [i \in 1..k |-> Feature(FeatureIds[i + 1])]

DualRelationships(k) ==
    SeqsUpTo({Relationship(FeatureIds[i + 1], FeatureIds[j + 1]) : i, j \in 1..k},
             MaxDualEdges)

EntityLists == {<<<<"E","n","c","o","d","e","r">>>>, <<<<"D","e","c","o","d","e","r"," ","L","a","y","e","r">>>>, <<<<"e">>>>}

InitDual ==
    /\ \E k \in 0..MaxDualNodes :
          \E rels \in DualRelationships(k) :
              graph = build_graph(EmptyGraph,
                                  [features |-> DualFeatures(k), relationships |-> rels])
    /\ parsed_data = "parsed"
    /\ current_graph = "graph"
    /\ current_query_engine = "engine"
    /\ uploaded_repo_path = "repo"
    /\ uploaded_paper_path = None
    /\ current_paper_data = None
    /\ \E entities \in EntityLists : supplied = [op |-> "strategy", entities |-> entities]
    /\ response = NoResponse

DependencyQuery ==
    /\ response.op = "none"
    /\ response' = [op |-> "dependency",
                    evidence |-> _handle_dependency_query(graph, supplied.entities)]
    /\ UNCHANGED <<graph, globals, supplied>>

ImpactQuery ==
    /\ response.op = "none"
    /\ response' = [op |-> "impact",
                    evidence |-> _handle_impact_query(graph, supplied.entities)]
    /\ UNCHANGED <<graph, globals, supplied>>

NextDual == DependencyQuery \/ ImpactQuery

SpecDual == InitDual /\ [][NextDual]_vars

\* the nodes that the entities of the request resolve to, in node order
Resolved == _find_nodes_by_entities(graph, supplied.entities, None)

\* the evidence has a 1-hop entry for the edge a -> b
Reports(entries, a, b) ==
    \E i \in 1..Len(entries) :
        entries[i].from = a /\ entries[i].to = b /\ entries[i].hop = 1

\* C4 as stated: for every edge A -> B, a Dependency query whose resolved
\* targets include B reports A -> B as a 1-hop dependency, and an Impact
\* query whose resolved seeds include A reports A -> B as a 1-hop effect.
C4_DualForEveryResolved ==
    LET resolved == Range(Resolved)
    IN  \A e \in EdgeSet(graph) :
            /\ (response.op = "dependency" /\ e[2] \in resolved)
                  => Reports(response.evidence.dependencies, e[1], e[2])
            /\ (response.op = "impact" /\ e[1] \in resolved)
                  => Reports(response.evidence.affected, e[1], e[2])

\* C4 amended: the same for B among the first 3 resolved targets and A among
\* the first 5 predecessors of B (Dependency), and for A among the first 3
\* resolved seeds and B among the first 5 successors of A (Impact).
C4_DualWithinCaps ==
    LET first == Range(prefix(Resolved, TargetCap))
    IN  \A e \in EdgeSet(graph) :
            /\ (/\ response.op = "dependency"
                /\ e[2] \in first
                /\ e[1] \in Range(prefix(predecessors(graph, e[2]), FirstHopCap)))
                  => Reports(response.evidence.dependencies, e[1], e[2])
            /\ (/\ response.op = "impact"
                /\ e[1] \in first
                /\ e[2] \in Range(prefix(successors(graph, e[1]), FirstHopCap)))
                  => Reports(response.evidence.affected, e[1], e[2])

\* a Dependency query that reports an edge A -> B between two different nodes
\* whose target B is the third resolved target
C4_Witness ==
    /\ response.op = "dependency"
    /\ Len(Resolved) >= 3
    /\ \E e \in EdgeSet(graph) :
          /\ e[1] # e[2]
          /\ e[2] = Resolved[3]
          /\ Reports(response.evidence.dependencies, e[1], e[2])

(***************************************************************************)
(* Gap analysis across rebuilds: the builder and an engine that reads the   *)
(* builder's graph; up to MaxGapPapers paper nodes and one code node        *)
(***************************************************************************)
MaxGapPapers == 2

PaperIdSeq == <<"paper_section_0", "paper_section_1", "paper_section_2", "paper_section_3">>

GapPaperLists == {[i \in 1..k |-> PaperNode(PaperIdSeq[i])] : k \in 0..MaxGapPapers}

GapCodeLists == {<<>>, <<Feature("feature_0")>>}

GapCrossModalLists ==
    AtMostOne(EdgeRecords({<<PaperIdSeq[i], "feature_0">> : i \in 1..MaxGapPapers}
                             \cup {<<"feature_0", "paper_section_0">>},
                          {"implements", "describes", "related"}))

GapPaperEdgeLists ==
    AtMostOne(EdgeRecords({<<"paper_section_0", "paper_section_1">>}, {"implements"}))

\* node n has an outgoing edge flagged cross_modal with relation 'implements'
\* or 'describes'
Qualifies(g, n) ==
    \E e \in EdgeSet(g) :
        /\ e[1] = n
        /\ g.edata[e].cross_modal
        /\ g.edata[e].relation \in {"implements", "describes"}

InitGap ==
    /\ graph = EmptyGraph
    /\ parsed_data = "parsed"
    /\ current_graph = "graph"
    /\ current_query_engine = "engine"
    /\ uploaded_repo_path = "repo"
    /\ uploaded_paper_path = "paper"
    /\ current_paper_data = "paper"
    /\ supplied = [op |-> "init", ever |-> {}]
    /\ response = NoResponse

\* a rebuild; `ever` collects the nodes that have had a qualifying edge
GapRebuild ==
    \E pn \in GapPaperLists, cn \in GapCodeLists,
       cm \in GapCrossModalLists, pe \in GapPaperEdgeLists :
        /\ graph' = build_unified_graph(graph, pn, cn, cm, pe)
        /\ supplied' = [op |-> "build_unified_graph",
                        ever |-> supplied.ever \cup
                                 {n \in NodeSet(graph') : Qualifies(graph', n)}]
        /\ response' = [op |-> "build"]
        /\ UNCHANGED globals

GapQuery ==
    /\ response' = [op |-> "gap", evidence |-> _handle_gap_query(graph)]
    /\ UNCHANGED <<graph, globals, supplied>>

NextGap == GapRebuild \/ GapQuery

SpecGap == InitGap /\ [][NextGap]_vars

\* the gap list is exactly the paper nodes without a qualifying edge, each
\* once, and count is its length
GapListExact ==
    LET gaps == response.evidence.gaps
    IN  /\ {gaps[i].node : i \in 1..Len(gaps)} =
              {n \in NodeSet(graph) : graph.data[n].modality = "paper" /\ ~Qualifies(graph, n)}
        /\ \A i, j \in 1..Len(gaps) : gaps[i].node = gaps[j].node => i = j
        /\ \A i \in 1..Len(gaps) : graph.data[gaps[i].node].modality # "code"
        /\ response.evidence.count = Len(gaps)
        /\ Range(response.evidence.nodes) = {gaps[i].node : i \in 1..Len(gaps)}

\* C5 as stated: the gap list is exactly the paper nodes without a qualifying
\* edge, count is its size, and a node for which a rebuild once supplied such
\* an edge is absent from every later gap result.
C5_GapExactAndNeverAgain ==
    response.op = "gap" =>
        /\ GapListExact
        /\ \A n \in supplied.ever : n \notin Range(response.evidence.nodes)

\* C5 amended: the gap list is exactly the paper nodes without a qualifying
\* edge, count is its size, and a node is absent from every gap result
\* computed while the graph holds such an edge for it.
C5_GapExactWhileEdgeHeld ==
    response.op = "gap" =>
        /\ GapListExact
        /\ \A n \in NodeSet(graph) : Qualifies(graph, n) => n \notin Range(response.evidence.nodes)

\* a gap result on a graph where one paper node has a qualifying edge and
\* another paper node, listed as a gap, has only an intra-paper 'implements' edge
C5_Witness ==
    /\ response.op = "gap"
    /\ response.evidence.count = 1
    /\ \E n \in NodeSet(graph) : graph.data[n].modality = "paper" /\ Qualifies(graph, n)
    /\ \E e \in EdgeSet(graph) :
          /\ e[1] \in Range(response.evidence.nodes)
          /\ graph.edata[e].relation = "implements"

(***************************************************************************)
(* The engine on its own: one query against a unified graph, with a         *)
(* text-completion collaborator that returns a text or raises               *)
(***************************************************************************)
HowIsAttentionImplemented ==
    <<"H","o","w"," ","i","s"," ","A","t","t","e","n","t","i","o","n"," ","i","m","p","l","e","m","e","n","t","e","d","?">>
WhatRequiresAttention ==
    <<"W","h","a","t"," ","r","e","q","u","i","r","e","s"," ","A","t","t","e","n","t","i","o","n","?">>
WhatIsMissing ==
    <<"W","h","a","t"," ","i","s"," ","m","i","s","s","i","n","g","?">>
WhatBreaksAfterAttention ==
    <<"W","h","a","t"," ","b","r","e","a","k","s"," ","a","f","t","e","r"," ","A","t","t","e","n","t","i","o","n","?">>
SummarizeTheArchitecture ==
    <<"S","u","m","m","a","r","i","z","e"," ","t","h","e"," ","a","r","c","h","i","t","e","c","t","u","r","e">>
WhereIsEncoder ==
    <<"W","h","e","r","e"," ","i","s"," ","E","n","c","o","d","e","r","?">>
TellMeAboutAttention ==
    <<"T","e","l","l"," ","m","e"," ","a","b","o","u","t"," ","A","t","t","e","n","t","i","o","n">>

EngineQueries == {HowIsAttentionImplemented, WhatRequiresAttention, WhatIsMissing, WhatBreaksAfterAttention,
                  SummarizeTheArchitecture, WhereIsEncoder, TellMeAboutAttention}

MaxEngineFeatures == 2

EngineCodeLists == {[i \in 1..k |-> Feature(FeatureIds[i])] : k \in 0..MaxEngineFeatures}

EngineCrossModalLists ==
    AtMostOne(EdgeRecords({<<"paper_section_0", FeatureIds[i]>> : i \in 1..MaxEngineFeatures}
                             \cup {<<"feature_0", "feature_1">>},
                          {"implements", "related"}))

InitEngine ==
    /\ \E pn \in GapPaperLists, cn \in EngineCodeLists,
          cm \in EngineCrossModalLists, pe \in GapPaperEdgeLists :
          graph = build_unified_graph(EmptyGraph, pn, cn, cm, pe)
    /\ parsed_data = "parsed"
    /\ current_graph = "graph"
    /\ current_query_engine = "engine"
    /\ uploaded_repo_path = "repo"
    /\ uploaded_paper_path = "paper"
    /\ current_paper_data = "paper"
    /\ \E query \in EngineQueries, call \in {Returned(<<"completion">>), Raised} :
          supplied = [op |-> "query", query |-> query, call |-> call]
    /\ response = NoResponse

ProcessQuery ==
    /\ response.op = "none"
    /\ \E result \in process_query(graph, supplied.query, supplied.call) :
          response' = result
    /\ UNCHANGED <<graph, globals, supplied>>

NextEngine == ProcessQuery

SpecEngine == InitEngine /\ [][NextEngine]_vars

\* the count of an evidence record, 0 when it has none
CountOf(evidence) == IF "count" \in DOMAIN evidence THEN evidence.count ELSE 0

\* apart from the answer, the response is one that the same query gives when
\* the call returns a text
SameAsOnSuccess ==
    \E ok \in process_query(graph, supplied.query, Returned(<<"completion">>)) :
        /\ ok.query_type = response.query_type
        /\ ok.graph_evidence = response.graph_evidence
        /\ ok.highlighted_nodes = response.highlighted_nodes
        /\ ok.paths = response.paths

\* C7 as stated: when the call raises, process_query does not fail, the
\* answer is "Found {count} {type} results in the graph.", no retry is made
\* and the other fields are as on success.
C7_FallbackSentenceOnly ==
    (response.op = "query" /\ supplied.call.raised) =>
        /\ response.status = "ok"
        /\ response.answer = <<"Found ", ToString(CountOf(response.graph_evidence)), " ",
                               response.graph_evidence.type, " results in the graph.">>
        /\ response.llm_calls = 1
        /\ SameAsOnSuccess

\* C7 amended: the same, the answer being "Found {count} {type} results in
\* the graph. Check the visualization for details."
C7_FallbackOnRaise ==
    (response.op = "query" /\ supplied.call.raised) =>
        /\ response.status = "ok"
        /\ response.answer = <<"Found ", ToString(CountOf(response.graph_evidence)), " ",
                               response.graph_evidence.type, " results in the graph.",
                               " Check the visualization for details.">>
        /\ response.llm_calls = 1
        /\ SameAsOnSuccess

\* a query answered by the fallback after the call raised, with evidence
C7_Witness ==
    /\ response.op = "query"
    /\ supplied.call.raised
    /\ response.status = "ok"
    /\ response.graph_evidence.type = "path"
    /\ response.graph_evidence.count = 1

(***************************************************************************)
(* The service: upload_paper, upload_repository and query_codebase over the *)
(* process-wide state of main.py                                            *)
(***************************************************************************)
MaxServerFeatures == 2

ServerFeatureLists == {[i \in 1..k |-> Feature(FeatureIds[i])] : k \in 0..MaxServerFeatures}

ServerRelationshipLists ==
    AtMostOne(EdgeRecords({<<"feature_0", "feature_1">>, <<"feature_1", "feature_0">>},
                          {"depends_on"}))

ServerPaperLists == {<<>>, <<PaperNode("paper_section_0")>>}

ServerCrossModalLists ==
    AtMostOne(EdgeRecords({<<"paper_section_0", FeatureIds[i]>> : i \in 1..MaxServerFeatures},
                          {"implements"}))

ServerQueries == {HowIsAttentionImplemented, WhatIsMissing, WhereIsEncoder,
                  TellMeAboutAttention}

\* what the parsers and the mapper an upload relies on may do
Outcomes == {"ok", "parse_error", "mapping_error"}

\* the code features an upload reads back from the graph it holds
code_features(g) ==
    LET code == SelectSeq(g.nodes, LAMBDA n : g.data[n].modality = "code")
    IN  [i \in DOMAIN code |->
            [id |-> code[i], name |-> g.data[code[i]].name, type |-> g.data[code[i]].type]]

\* history kept beside the program state: whether build_graph has run,
\* whether a repository upload has completed, and the graph as it was when the
\* live engine was constructed
History(op, built, completed, constructed) ==
    [op |-> op, built |-> built, completed |-> completed, constructed |-> constructed]

Init ==
    /\ graph = EmptyGraph
    /\ parsed_data = None
    /\ current_graph = None
    /\ current_query_engine = None
    /\ uploaded_repo_path = None
    /\ uploaded_paper_path = None
    /\ current_paper_data = None
    /\ supplied = History("init", FALSE, FALSE, EmptyGraph)
    /\ response = NoResponse

\* main.upload_repository
upload_repository ==
    \E outcome \in Outcomes, features \in ServerFeatureLists,
       rels \in ServerRelationshipLists, pn \in ServerPaperLists,
       cm \in ServerCrossModalLists :
        LET feature_graph == build_graph(graph, [features |-> features,
                                                 relationships |-> rels])
            has_paper == current_paper_data # None /\ uploaded_paper_path # None
        IN  /\ uploaded_repo_path' = "repo"
            /\ IF outcome = "parse_error"
               THEN /\ response' = [op |-> "upload_repository", status |-> "raised"]
                    /\ supplied' = [supplied EXCEPT !.op = "upload_repository"]
                    /\ UNCHANGED <<graph, parsed_data, current_graph, current_query_engine>>
               ELSE /\ parsed_data' = "parsed"
                    /\ current_graph' = "graph"
                    /\ current_query_engine' = "engine"
                    /\ IF has_paper /\ outcome = "mapping_error"
                       THEN /\ graph' = feature_graph
                            /\ response' = [op |-> "upload_repository", status |-> "raised"]
                            /\ supplied' = History("upload_repository", TRUE,
                                                   supplied.completed, feature_graph)
                       ELSE /\ graph' = IF has_paper
                                        THEN build_unified_graph(feature_graph, pn,
                                                code_features(feature_graph), cm, <<>>)
                                        ELSE feature_graph
                            /\ response' = [op |-> "upload_repository", status |-> "ok"]
                            /\ supplied' = History("upload_repository", TRUE, TRUE, feature_graph)
            /\ UNCHANGED <<uploaded_paper_path, current_paper_data>>

\* main.upload_paper
upload_paper ==
    \E outcome \in Outcomes, pn \in ServerPaperLists, cm \in ServerCrossModalLists :
        /\ uploaded_paper_path' = "paper"
        /\ supplied' = [supplied EXCEPT !.op = "upload_paper"]
        /\ IF outcome = "parse_error"
           THEN /\ response' = [op |-> "upload_paper", status |-> "raised"]
                /\ UNCHANGED <<graph, current_graph, current_paper_data>>
           ELSE /\ current_paper_data' = "paper"
                /\ IF current_graph # None /\ parsed_data # None
                   THEN IF outcome = "mapping_error"
                        THEN /\ response' = [op |-> "upload_paper", status |-> "raised"]
                             /\ UNCHANGED <<graph, current_graph>>
                        ELSE /\ graph' = build_unified_graph(graph, pn,
                                            code_features(graph), cm, <<>>)
                             /\ current_graph' = "graph"
                             /\ response' = [op |-> "upload_paper", status |-> "ok"]
                   ELSE /\ response' = [op |-> "upload_paper", status |-> "ok"]
                        /\ UNCHANGED <<graph, current_graph>>
        /\ UNCHANGED <<parsed_data, current_query_engine, uploaded_repo_path>>

\* the test of query_codebase left out
engine_missing_ignored(engine) == FALSE

\* query_codebase: "if current_query_engine is None"
engine_missing(engine) == engine = None

\* an engine that reads a copy of the graph made when it was constructed
engine_graph_copied(builder_graph, constructed) == constructed

\* the graph the engine reads: __init__ keeps the object it is given
\* (self.graph = graph), upload_repository gives it the builder's graph, and
\* both builds empty and refill that object (self.graph.clear()), so the
\* engine reads the builder's graph as it is now
engine_graph(builder_graph, constructed) == builder_graph

\* main.query_codebase, the client of the text completion working or failing
query_codebase ==
    \E query \in ServerQueries, client \in {"ok", "error"} :
        /\ IF engine_missing(current_query_engine)
           THEN response' = [op |-> "query", status |-> "rejected", status_code |-> 400,
                             client |-> client]
           ELSE \E result \in process_query(engine_graph(graph, supplied.constructed),
                                             query, _call_llm(client)) :
                    response' = [q \in DOMAIN result \cup {"client"} |->
                                    IF q = "client" THEN client ELSE result[q]]
        /\ supplied' = [supplied EXCEPT !.op = "query"]
        /\ UNCHANGED <<graph, globals>>

Next == upload_repository \/ upload_paper \/ query_codebase

Spec == Init /\ [][Next]_vars

\* C6: a query issued while no graph has been built is rejected with an error
\* and carries no evidence, and a query issued after a repository upload has
\* completed is processed and returns a result record.
C6_QueryNeedsRepository ==
    response.op = "query" =>
        /\ ~supplied.built =>
              /\ response.status = "rejected"
              /\ "graph_evidence" \notin DOMAIN response
        /\ supplied.completed =>
              /\ response.status = "ok"
              /\ {"query", "answer", "query_type", "graph_evidence",
                  "highlighted_nodes", "paths"} \subseteq DOMAIN response

\* a query rejected after a paper-only upload
C6_Witness ==
    /\ response.op = "query"
    /\ response.status = "rejected"
    /\ current_paper_data # None
    /\ ~supplied.built

\* C8: when the client of the text completion fails and the collaborator
\* returns an error-describing string, the answer is the fallback sentence.
C8_FallbackOnErrorString ==
    (response.op = "query" /\ response.status = "ok" /\ response.client = "error") =>
        response.answer = _generate_fallback_answer(response.graph_evidence)

(***************************************************************************)
(* Classification across uploads, rebuilds and queries: the service with    *)
(* the labels given so far kept beside the program state                    *)
(***************************************************************************)
\* the classifier made to look at the graph
_classify_query_by_graph(query) ==
    IF graph.nodes = <<>> THEN "related" ELSE classify_from(1, lower(query))

\* GraphQueryEngine._classify_query as the engine of the service runs it
classify(query) == _classify_query(query)

PureQueries == {HowIsAttentionImplemented, WhatIsMissing, TellMeAboutAttention}

InitPure ==
    /\ graph = EmptyGraph
    /\ parsed_data = None
    /\ current_graph = None
    /\ current_query_engine = None
    /\ uploaded_repo_path = None
    /\ uploaded_paper_path = None
    /\ current_paper_data = None
    /\ supplied = [op |-> "init", seen |-> {}]
    /\ response = NoResponse

\* upload_repository running to its end
RepositoryUploaded ==
    \E features \in ServerFeatureLists, rels \in ServerRelationshipLists,
       pn \in ServerPaperLists, cm \in ServerCrossModalLists :
        LET feature_graph == build_graph(graph, [features |-> features,
                                                 relationships |-> rels])
        IN  /\ uploaded_repo_path' = "repo"
            /\ parsed_data' = "parsed"
            /\ current_graph' = "graph"
            /\ current_query_engine' = "engine"
            /\ graph' = IF current_paper_data # None /\ uploaded_paper_path # None
                        THEN build_unified_graph(feature_graph, pn,
                                code_features(feature_graph), cm, <<>>)
                        ELSE feature_graph
            /\ response' = [op |-> "upload_repository", status |-> "ok"]
            /\ supplied' = [supplied EXCEPT !.op = "upload_repository"]
            /\ UNCHANGED <<uploaded_paper_path, current_paper_data>>

\* upload_paper running to its end
PaperUploaded ==
    \E pn \in ServerPaperLists, cm \in ServerCrossModalLists :
        /\ uploaded_paper_path' = "paper"
        /\ current_paper_data' = "paper"
        /\ IF current_graph # None /\ parsed_data # None
           THEN /\ graph' = build_unified_graph(graph, pn, code_features(graph), cm, <<>>)
                /\ current_graph' = "graph"
           ELSE UNCHANGED <<graph, current_graph>>
        /\ response' = [op |-> "upload_paper", status |-> "ok"]
        /\ supplied' = [supplied EXCEPT !.op = "upload_paper"]
        /\ UNCHANGED <<parsed_data, current_query_engine, uploaded_repo_path>>

\* query_codebase on the engine: process_query classifies the text first.
\* Each classification is remembered with whether the graph was empty then.
QueryClassified ==
    \E query \in PureQueries :
        /\ current_query_engine # None
        /\ response' = [op |-> "classify", query |-> query, query_type |-> classify(query)]
        /\ supplied' = [op |-> "query",
                        seen |-> supplied.seen
                                   \cup {<<query, classify(query), graph.nodes = <<>> >>}]
        /\ UNCHANGED <<graph, globals>>

NextPure == RepositoryUploaded \/ PaperUploaded \/ QueryClassified

SpecPure == InitPure /\ [][NextPure]_vars

C12_EvidenceFields ==
    (response.op = "query" /\ response.status = "ok") =>
        {"type", "nodes", "count"} \subseteq DOMAIN response.graph_evidence

\* the graph of scenario 1: paper_section_0 "Attention" (paper), feature_0
\* "MultiHeadAttention" (code) and the one edge between them
IsScenarioGraph(g) ==
    /\ NodeSet(g) = {"paper_section_0", "feature_0"}
    /\ g.data["paper_section_0"].modality = "paper"
    /\ g.data["paper_section_0"].name = Attention
    /\ g.data["feature_0"].modality = "code"
    /\ g.data["feature_0"].name = MultiHeadAttention
    /\ EdgeSet(g) = {<<"paper_section_0", "feature_0">>}
    /\ g.edata[<<"paper_section_0", "feature_0">>].relation = "implements"
    /\ g.edata[<<"paper_section_0", "feature_0">>].cross_modal

\* C13: on the scenario graph, "How is Attention implemented?" is classified
\* 'path', resolves both nodes, and yields exactly one path
\* [paper_section_0, feature_0] of length 2 with evidence count 1.
C13_ScenarioPath ==
    (/\ response.op = "query"
     /\ response.status = "ok"
     /\ supplied.query = HowIsAttentionImplemented
     /\ IsScenarioGraph(graph)) =>
        /\ response.query_type = "path"
        /\ response.graph_evidence.type = "path"
        /\ response.highlighted_nodes = {"paper_section_0", "feature_0"}
        /\ Len(response.paths) = 1
        /\ response.paths[1].nodes = <<"paper_section_0", "feature_0">>
        /\ response.paths[1].length = 2
        /\ response.paths[1].steps[1].relation = "implements"
        /\ response.graph_evidence.count = 1

\* the scenario's query answered on the scenario's graph
C13_Witness ==
    /\ response.op = "query"
    /\ response.status = "ok"
    /\ supplied.query = HowIsAttentionImplemented
    /\ IsScenarioGraph(graph)
    /\ response.graph_evidence.count = 1

\* the nodes of an evidence record are none: gap and find return a list as
\* they built it, the other strategies a list made from a set
NoNodes(evidence) ==
    IF evidence.type \in {"gap", "find"} THEN evidence.nodes = <<>>
    ELSE evidence.nodes = {}

\* C14: on an empty graph every query completes without raising, resolves no
\* node, returns an empty highlighted_nodes list, and the fallback of the
\* renderer gives the templated answer reporting count 0.
C14_EmptyGraph ==
    (response.op = "query" /\ graph.nodes = <<>>) =>
        /\ response.status = "ok"
        /\ NoNodes(response.graph_evidence)
        /\ response.highlighted_nodes = response.graph_evidence.nodes
        /\ supplied.call.raised =>
              response.answer = <<"Found ", "0", " ", response.query_type,
                                  " results in the graph.",
                                  " Check the visualization for details.">>

\* the default strategy answered by the fallback on the empty graph
C14_Witness ==
    /\ response.op = "query"
    /\ graph.nodes = <<>>
    /\ supplied.call.raised
    /\ response.status = "ok"
    /\ response.query_type = "related"

(***************************************************************************)
(* The entity resolver on its own: one query text against one graph         *)
(***************************************************************************)
MaxTokens == 8

\* the words a query text is put together from
EntityTokens == <<
    <<"A","t","t","e","n","t","i","o","n">>,
    <<"E","n","c","o","d","e","r">>,
    <<"\"","a","t","t","e","n","t","i","o","n","\"">>,
    <<"A","b">>,
    <<"C","d">>,
    <<"\"","A","t","t","e","n","t","i","o","n","\"">>,
    <<"e","n","c","o","d","e","r">>,
    <<"E","f">>,
    <<"G","h">>,
    <<"I","j">>>>

Separators == {<<" ">>, <<",", " ">>}

\* the tokens numbered in S, in order from token i on, joined by sep
RECURSIVE Join(_, _, _)
Join(S, i, sep) ==
    IF i > MaxTokens \/ i > Len(EntityTokens) THEN <<>>
    ELSE IF i \notin S THEN Join(S, i + 1, sep)
    ELSE LET rest == Join(S, i + 1, sep)
         IN  IF rest = <<>> THEN EntityTokens[i] ELSE EntityTokens[i] \o sep \o rest

EntityQueries == {Join(S, 1, sep) : S \in SUBSET (1..MaxTokens), sep \in Separators}

EntityGraphs ==
    {EmptyGraph,
     build_unified_graph(EmptyGraph, <<PaperNode("paper_section_0")>>,
                         <<Feature("feature_1")>>, <<>>, <<>>)}

InitEntities ==
    /\ graph \in EntityGraphs
    /\ parsed_data = "parsed"
    /\ current_graph = "graph"
    /\ current_query_engine = "engine"
    /\ uploaded_repo_path = "repo"
    /\ uploaded_paper_path = "paper"
    /\ current_paper_data = "paper"
    /\ \E query \in EntityQueries : supplied = [op |-> "entities", query |-> query]
    /\ response = NoResponse

ExtractEntities ==
    /\ response.op = "none"
    /\ \E entities \in _extract_entities(graph, supplied.query) :
          response' = [op |-> "entities", entities |-> entities]
    /\ UNCHANGED <<graph, globals, supplied>>

NextEntities == ExtractEntities

SpecEntities == InitEntities /\ [][NextEntities]_vars

\* the union of the three passes over the query text
PassUnion(g, query) ==
    Range(quoted_from(query, 1)) \cup Range(cap_phrases_from(query, 1))
        \cup names_in_query(g, query)

\* C15: the resolver's output has no duplicates, has at most 5 entries, is a
\* subset of the union of its three passes, and is exactly the union when the
\* union has at most 5 members.
C15_EntitiesDedupedAndCapped ==
    response.op = "entities" =>
        LET entities == response.entities
            union == PassUnion(graph, supplied.query)
        IN  /\ \A i \in DOMAIN entities, j \in DOMAIN entities :
                  entities[i] = entities[j] => i = j
            /\ Len(entities) <= 5
            /\ Range(entities) \subseteq union
            /\ Cardinality(union) <= 5 => Range(entities) = union

\* a text for which the passes give the same string twice and more than five
\* strings in all
C15_Witness ==
    /\ response.op = "entities"
    /\ Len(response.entities) = 5
    /\ Cardinality(PassUnion(graph, supplied.query)) > 5
    /\ Range(cap_phrases_from(supplied.query, 1)) \cap names_in_query(graph, supplied.query) # {}

(***************************************************************************)
(* One build on its own: the input is kept, the build applied to it         *)
(***************************************************************************)
MaxBuildEdges == 2

BuildPaperLists ==
    {<<>>, <<PaperNode("paper_section_0")>>,
     <<PaperNode("paper_section_0"), PaperNode("paper_section_1")>>,
     <<PaperNode("feature_0")>>}

BuildCodeLists == {<<>>, <<Feature("feature_0")>>, <<Feature("feature_0"), Feature("feature_1")>>}

BuildPairs == {<<"paper_section_0", "feature_0">>, <<"paper_section_0", "paper_section_1">>,
               <<"feature_0", "feature_1">>}

BuildPaperEdges == EdgeRecords(BuildPairs, {"builds_on"})

BuildCrossModalEdges == EdgeRecords(BuildPairs, {"implements", "related"})

BuildRelationships ==
    EdgeRecords({<<"feature_0", "feature_1">>}, {"depends_on", "uses"})
        \cup EdgeRecords({<<"feature_1", "feature_0">>}, {"depends_on"})

InitOneBuild ==
    /\ graph = EmptyGraph
    /\ parsed_data = None
    /\ current_graph = None
    /\ current_query_engine = None
    /\ uploaded_repo_path = None
    /\ uploaded_paper_path = None
    /\ current_paper_data = None
    /\ \/ \E pn \in BuildPaperLists, cn \in BuildCodeLists,
             pe \in SeqsUpTo(BuildPaperEdges, MaxBuildEdges),
             cm \in SeqsUpTo(BuildCrossModalEdges, MaxBuildEdges) :
             supplied = [op |-> "build_unified_graph", paper_nodes |-> pn,
                         code_nodes |-> cn, paper_edges |-> pe, cross_modal_edges |-> cm]
       \/ \E features \in BuildCodeLists,
             rels \in SeqsUpTo(BuildRelationships, MaxBuildEdges) :
             supplied = [op |-> "build_graph", features |-> features,
                         relationships |-> rels]
    /\ response = NoResponse

UnifiedGraphBuilt ==
    /\ response.op = "none"
    /\ supplied.op = "build_unified_graph"
    /\ graph' = build_unified_graph(graph, supplied.paper_nodes, supplied.code_nodes,
                                    supplied.cross_modal_edges, supplied.paper_edges)
    /\ response' = [op |-> "build_unified_graph"]
    /\ UNCHANGED <<globals, supplied>>

FeatureGraphBuilt ==
    /\ response.op = "none"
    /\ supplied.op = "build_graph"
    /\ graph' = build_graph(graph, [features |-> supplied.features,
                                    relationships |-> supplied.relationships])
    /\ parsed_data' = "parsed"
    /\ response' = [op |-> "build_graph"]
    /\ UNCHANGED <<current_graph, current_query_engine, uploaded_repo_path,
                   uploaded_paper_path, current_paper_data, supplied>>

NextOneBuild == UnifiedGraphBuilt \/ FeatureGraphBuilt

SpecOneBuild == InitOneBuild /\ [][NextOneBuild]_vars

Modality(n) == graph.data[n].modality

\* C16: after build_unified_graph an edge has cross_modal = true iff it
\* connects a paper-modality node and a code-modality node, and has
\* intra_paper = true iff both its endpoints are paper-modality nodes and it
\* was supplied as a paper edge.
C16_FlagsMatchModalities ==
    response.op = "build_unified_graph" =>
        \A e \in EdgeSet(graph) :
            /\ graph.edata[e].cross_modal <=>
                  {Modality(e[1]), Modality(e[2])} = {"paper", "code"}
            /\ graph.edata[e].intra_paper <=>
                  /\ Modality(e[1]) = "paper"
                  /\ Modality(e[2]) = "paper"
                  /\ e \in Pairs(supplied.paper_edges)

\* C17: after build_unified_graph node ids are unique, every id supplied in
\* paper_nodes denotes a node of modality 'paper' and every id supplied in
\* code_nodes a node of modality 'code'.
C17_ModalityAsSupplied ==
    response.op = "build_unified_graph" =>
        /\ \A i \in DOMAIN graph.nodes, j \in DOMAIN graph.nodes :
              graph.nodes[i] = graph.nodes[j] => i = j
        /\ \A n \in Ids(supplied.paper_nodes) : has_node(graph, n) /\ Modality(n) = "paper"
        /\ \A n \in Ids(supplied.code_nodes) : has_node(graph, n) /\ Modality(n) = "code"

\* the edge records of the build's input in the order the build applies
\* them, each with the attributes the build gives its edge (the records
\* carry no confidence: the build's default for their list applies)
AppliedRecords ==
    LET attrs(rec, default, cross_modal, intra_paper) ==
            [pair |-> <<rec.source, rec.target>>,
             attrs |-> [relation |-> rec.type,
                        confidence |-> default,
                        cross_modal |-> cross_modal, intra_paper |-> intra_paper]]
    IN  IF supplied.op = "build_unified_graph"
        THEN [i \in DOMAIN supplied.paper_edges |->
                 attrs(supplied.paper_edges[i], 80, FALSE, TRUE)]
             \o [i \in DOMAIN supplied.cross_modal_edges |->
                    attrs(supplied.cross_modal_edges[i], 70, TRUE, FALSE)]
        ELSE [i \in DOMAIN supplied.relationships |->
                 attrs(supplied.relationships[i], 70, FALSE, FALSE)]

\* C18: the graph holds at most one edge per ordered pair; when a build is
\* supplied the same pair more than once (also once as a paper edge and once
\* as a cross-modal edge) the result has exactly one edge for the pair, with
\* the attributes of the record applied last.
C18_OneEdgePerPairLastWins ==
    response.op \in {"build_unified_graph", "build_graph"} =>
        /\ \A i \in DOMAIN graph.edges, j \in DOMAIN graph.edges :
              graph.edges[i] = graph.edges[j] => i = j
        /\ \A k \in DOMAIN AppliedRecords :
              LET pair == AppliedRecords[k].pair
                  last == SetMax({m \in DOMAIN AppliedRecords :
                                     AppliedRecords[m].pair = pair})
              IN  (has_node(graph, pair[1]) /\ has_node(graph, pair[2])) =>
                      /\ Cardinality({i \in DOMAIN graph.edges : graph.edges[i] = pair}) = 1
                      /\ graph.edata[pair] = AppliedRecords[last].attrs

\* one pair supplied as a paper edge and again as a cross-modal edge with
\* another relation, both endpoints known
C18_Witness ==
    /\ response.op = "build_unified_graph"
    /\ \E i \in DOMAIN supplied.paper_edges, j \in DOMAIN supplied.cross_modal_edges :
          /\ supplied.paper_edges[i].source = supplied.cross_modal_edges[j].source
          /\ supplied.paper_edges[i].target = supplied.cross_modal_edges[j].target
          /\ has_edge(graph, supplied.paper_edges[i].source, supplied.paper_edges[i].target)
          /\ j = Len(supplied.cross_modal_edges)
          /\ graph.edata[<<supplied.paper_edges[i].source,
                           supplied.paper_edges[i].target>>].relation
                = supplied.cross_modal_edges[j].type

(***************************************************************************)
(* What a query writes: the engine with the graph it started from kept      *)
(***************************************************************************)
\* a strategy that marks the nodes it reports in the graph
graph_after_query_marking(g, result) ==
    [g EXCEPT !.data = [n \in DOMAIN g.data |->
                           IF n \in NodeSet(g) /\ result.type = "find"
                                 /\ n \in Range(result.nodes)
                           THEN [g.data[n] EXCEPT !.type = "found"]
                           ELSE g.data[n]]]

\* the graph after process_query: no strategy, helper or renderer calls a
\* mutating method of self.graph or assigns into a node's or an edge's
\* attribute dict
graph_after_query(g, result) == g

InitReadOnly ==
    /\ \E pn \in GapPaperLists, cn \in EngineCodeLists,
          cm \in EngineCrossModalLists, pe \in GapPaperEdgeLists :
          graph = build_unified_graph(EmptyGraph, pn, cn, cm, pe)
    /\ parsed_data = "parsed"
    /\ current_graph = "graph"
    /\ current_query_engine = "engine"
    /\ uploaded_repo_path = "repo"
    /\ uploaded_paper_path = "paper"
    /\ current_paper_data = "paper"
    /\ \E query \in EngineQueries, call \in {Returned(<<"completion">>), Raised} :
          supplied = [op |-> "query", query |-> query, call |-> call, before |-> graph]
    /\ response = NoResponse

ProcessQueryOnGraph ==
    /\ response.op = "none"
    /\ \E result \in process_query(graph, supplied.query, supplied.call) :
          /\ response' = result
          /\ graph' = graph_after_query(graph, result.graph_evidence)
    /\ UNCHANGED <<globals, supplied>>

NextReadOnly == ProcessQueryOnGraph

SpecReadOnly == InitReadOnly /\ [][NextReadOnly]_vars

MaxPathEdges == 4

PathPairs == {<<"paper_section_0", "paper_section_1">>, <<"paper_section_1", "feature_0">>,
              <<"paper_section_0", "feature_0">>, <<"feature_0", "feature_1">>,
              <<"paper_section_0", "feature_1">>, <<"paper_section_1", "feature_1">>}

\* two paper nodes, two code nodes and up to MaxPathEdges edges between them
PathGraphs ==
    {build_unified_graph(EmptyGraph,
        <<PaperNode("paper_section_0"), PaperNode("paper_section_1")>>,
        <<Feature("feature_0"), Feature("feature_1")>>,
        SetToSeq(EdgeRecords(S, {"implements"})), <<>>) :
     S \in {T \in SUBSET PathPairs : Cardinality(T) <= MaxPathEdges}}

\* one more paper node and one more code node than the strategy looks at,
\* every paper node mapped to every code node
ManyPathsGraph ==
    build_unified_graph(EmptyGraph,
        [i \in 1..(PathSeedCap + 1) |-> PaperNode(PaperIdSeq[i])],
        [i \in 1..(PathSeedCap + 1) |-> Feature(FeatureIds[i])],
        SetToSeq(EdgeRecords({<<PaperIdSeq[i], FeatureIds[j]>> :
                                 i \in 1..(PathSeedCap + 1), j \in 1..(PathSeedCap + 1)},
                             {"implements"})),
        <<>>)

PathEntityLists == {<<<<"A","t","t","e","n","t","i","o","n">>>>,
                    <<<<"e">>>>,
                    <<<<"L","a","y","e","r">>, <<"E","n","c","o","d","e","r">>>>}

\* a feature graph whose feature_0 has as many successors as the
\* neighbourhood cap, one of which has a successor of its own
WideGraph ==
    LET star == StarFeatureData(NeighborhoodCap, TRUE)
    IN  build_graph(EmptyGraph,
            [features |-> Append(star.features, Feature(FeatureIds[NeighborhoodCap + 2])),
             relationships |-> Append(star.relationships,
                                  Relationship(FeatureIds[2], FeatureIds[NeighborhoodCap + 2]))])

InitPath ==
    /\ graph \in PathGraphs \cup {ManyPathsGraph, WideGraph}
    /\ parsed_data = "parsed"
    /\ current_graph = "graph"
    /\ current_query_engine = "engine"
    /\ uploaded_repo_path = "repo"
    /\ uploaded_paper_path = "paper"
    /\ current_paper_data = "paper"
    /\ \E entities \in PathEntityLists : supplied = [op |-> "strategy", entities |-> entities]
    /\ response = NoResponse

PathQuery ==
    /\ response.op = "none"
    /\ \E evidence \in _handle_path_query(graph, supplied.entities) :
          response' = [op |-> "path", evidence |-> evidence]
    /\ UNCHANGED <<graph, globals, supplied>>

NextPath == PathQuery

SpecPath == InitPath /\ [][NextPath]_vars

\* the nodes a directed walk of at most n edges from the nodes of S reaches
RECURSIVE ReachWithin(_, _, _)
ReachWithin(g, S, n) ==
    IF n = 0 THEN S
    ELSE ReachWithin(g, S \cup UNION {Range(successors(g, m)) : m \in S}, n - 1)

\* node n matches one of the supplied entities
MatchesEntity(n) == entity_matches(lower(graph.data[n].name), supplied.entities)

\* C20: each path the Path strategy reports starts at a paper node and ends
\* at a code node that both match an entity, is a directed path of the graph
\* whose steps carry the edges' relations, and is a shortest one; count is
\* the number of reported paths and never exceeds 9.
C20_ReportedPaths ==
    response.op = "path" =>
        LET paths == response.evidence.paths
        IN  /\ response.evidence.count = Len(paths)
            /\ response.evidence.count <= 9
            /\ \A i \in DOMAIN paths :
                  LET p == paths[i].nodes
                      steps == paths[i].steps
                  IN  /\ Len(p) >= 2
                      /\ Modality(p[1]) = "paper" /\ MatchesEntity(p[1])
                      /\ Modality(p[Len(p)]) = "code" /\ MatchesEntity(p[Len(p)])
                      /\ Len(steps) = Len(p) - 1
                      /\ \A k \in 1..(Len(p) - 1) :
                            /\ has_edge(graph, p[k], p[k + 1])
                            /\ steps[k].from = p[k]
                            /\ steps[k].to = p[k + 1]
                            /\ steps[k].relation = graph.edata[<<p[k], p[k + 1]>>].relation
                      /\ p[Len(p)] \notin ReachWithin(graph, {p[1]}, Len(p) - 2)

\* a reported path of two edges between endpoints that a longer directed
\* path joins too
C20_Witness ==
    /\ response.op = "path"
    /\ \E i \in DOMAIN response.evidence.paths :
          LET p == response.evidence.paths[i].nodes
          IN  /\ Len(p) = 3
              /\ Cardinality(simple_paths(graph, p[1], p[3], {p[1]})) > 1

\* the nodes of S with their successors and predecessors
Hop(g, S) ==
    S \cup UNION {Range(successors(g, n)) \cup Range(predecessors(g, n)) : n \in S}

\* the nodes matched by the supplied entities
MatchedNodes == {n \in NodeSet(graph) : MatchesEntity(n)}

\* the nodes on the reported paths
NodesOnPaths ==
    UNION {Range(response.evidence.paths[i].nodes) : i \in DOMAIN response.evidence.paths}

MaxWalkNodes == 7

\* the relationships of the ring of k features with the given offsets; the
\* relation type follows the offset
RingRelationships(k, offsets) ==
    LET pairs == {<<i, d>> \in (1..k) \X offsets : TRUE}
        rel(p) == [Relationship(FeatureIds[p[1] + 1],
                                FeatureIds[((p[1] + p[2] - 1) % k) + 2])
                      EXCEPT !.type = IF p[2] % 2 = 0 THEN "depends_on" ELSE "uses"]
        ordered == SetToSeq(pairs)
    IN  [i \in 1..Len(ordered) |-> rel(ordered[i])]

RingGraph(k, offsets) ==
    build_graph(EmptyGraph, [features |-> DualFeatures(k),
                             relationships |-> RingRelationships(k, offsets)])

InitWalk ==
    /\ \E k \in 0..MaxWalkNodes :
          \E offsets \in SUBSET (0..(k - 1)) : graph = RingGraph(k, offsets)
    /\ parsed_data = "parsed"
    /\ current_graph = "graph"
    /\ current_query_engine = "engine"
    /\ uploaded_repo_path = "repo"
    /\ uploaded_paper_path = None
    /\ current_paper_data = None
    /\ \E entities \in EntityLists : supplied = [op |-> "strategy", entities |-> entities]
    /\ response = NoResponse

NextWalk == DependencyQuery \/ ImpactQuery

SpecWalk == InitWalk /\ [][NextWalk]_vars

\* the entries of the Dependency evidence as (from, to, hop) triples
DependencyEntries ==
    {<<response.evidence.dependencies[i].from, response.evidence.dependencies[i].to,
       response.evidence.dependencies[i].hop>> : i \in 1..Len(response.evidence.dependencies)}

\* C22: the Dependency strategy examines at most the first 3 resolved
\* targets, at most 5 direct predecessors of each and at most 3 predecessors
\* of each of those; every entry (from, to) is an edge from -> to of the graph
\* and carries that edge's relation, every 1-hop entry has a resolved target
\* as 'to', count is the number of entries and at most 60, and nodes is
\* exactly the set of endpoints of the entries.
C22_DependencyWalk ==
    response.op = "dependency" =>
        LET entries == response.evidence.dependencies
            targets == Range(prefix(Resolved, 3))
            first(t) == Range(prefix(predecessors(graph, t), 5))
            second(d) == Range(prefix(predecessors(graph, d), 3))
        IN  /\ \A i \in 1..Len(entries) :
                   /\ <<entries[i].from, entries[i].to>> \in EdgeSet(graph)
                   /\ entries[i].relation =
                          graph.edata[<<entries[i].from, entries[i].to>>].relation
                   /\ entries[i].hop = 1 =>
                          /\ entries[i].to \in targets
                          /\ entries[i].from \in first(entries[i].to)
                   /\ entries[i].hop = 2 =>
                          /\ entries[i].from \in second(entries[i].to)
                          /\ \E t \in targets : entries[i].to \in first(t)
            /\ response.evidence.count = Len(entries)
            /\ response.evidence.count <= 60
            /\ response.evidence.nodes =
                   UNION {{entries[i].from, entries[i].to} : i \in 1..Len(entries)}

\* a Dependency query on a graph where more than 3 nodes resolve, a target
\* has more than 5 predecessors and one of those more than 3, answered with
\* the full 60 entries
C22_Witness ==
    /\ response.op = "dependency"
    /\ Len(Resolved) > 3
    /\ \E t \in Range(prefix(Resolved, 3)) :
          /\ Len(predecessors(graph, t)) > 5
          /\ \E d \in Range(prefix(predecessors(graph, t), 5)) :
                 Len(predecessors(graph, d)) > 3
    /\ response.evidence.count = 60

\* the graph with every edge reversed
reversed(g) ==
    [nodes |-> g.nodes,
     data |-> g.data,
     edges |-> [i \in 1..Len(g.edges) |-> <<g.edges[i][2], g.edges[i][1]>>],
     edata |-> [p \in {<<e[2], e[1]>> : e \in DOMAIN g.edata} |-> g.edata[<<p[2], p[1]>>]]]

\* no cap of the Impact walk from the resolved seeds truncates
NoCapTruncates ==
    /\ Len(Resolved) <= TargetCap
    /\ \A n \in Range(Resolved) :
          /\ Len(successors(graph, n)) <= FirstHopCap
          /\ \A s \in Range(successors(graph, n)) :
                 Len(successors(graph, s)) <= SecondHopCap

PairsOf(entries) == {<<entries[i].from, entries[i].to>> : i \in 1..Len(entries)}

\* C23: when no cap truncates, the (from, to) pairs that Impact reports on G
\* are the reversed pairs that Dependency reports on G with every edge
\* reversed, and the two results have the same nodes and the same count.
C23_ImpactIsDependencyReversed ==
    (response.op = "impact" /\ NoCapTruncates) =>
        LET dual == _handle_dependency_query(reversed(graph), supplied.entities)
        IN  /\ PairsOf(response.evidence.affected) =
                   {<<p[2], p[1]>> : p \in PairsOf(dual.dependencies)}
            /\ response.evidence.nodes = dual.nodes
            /\ response.evidence.count = dual.count

\* an Impact query, no cap truncating, that reports a second-hop effect
C23_Witness ==
    /\ response.op = "impact"
    /\ NoCapTruncates
    /\ \E i \in 1..Len(response.evidence.affected) : response.evidence.affected[i].hop = 2
    /\ Len(Resolved) >= 2

(***************************************************************************)
(* Related on its own: feature_1 .. feature_k with, for every j of a chosen *)
(* set, the relationships feature_1 -> feature_j and feature_j ->           *)
(* feature_(j+1), so that degrees differ and some nodes stay isolated       *)
(***************************************************************************)
MaxRelatedNodes == 7

FanRelationships(k, chosen) ==
    LET fan == SelectSeq([j \in 1..k |-> j], LAMBDA j : j \in chosen)
        chain == SelectSeq(fan, LAMBDA j : j < k)
    IN  [i \in 1..Len(fan) |-> Relationship(FeatureIds[2], FeatureIds[fan[i] + 1])]
        \o [i \in 1..Len(chain) |-> Relationship(FeatureIds[chain[i] + 1], FeatureIds[chain[i] + 2])]

\* no entity, one that no feature name matches, and two that match
RelatedEntityLists ==
    {<<>>, <<<<"Z","e","b","r","a">>>>, <<<<"D","e","c","o","d","e","r">>>>,
     <<<<"L","a","y","e","r">>, <<"Z","e","b","r","a">>>>}

InitRelated ==
    /\ \E k \in 0..MaxRelatedNodes :
          \E chosen \in SUBSET (1..k) :
              graph = build_graph(EmptyGraph,
                                  [features |-> DualFeatures(k),
                                   relationships |-> FanRelationships(k, chosen)])
    /\ parsed_data = "parsed"
    /\ current_graph = "graph"
    /\ current_query_engine = "engine"
    /\ uploaded_repo_path = "repo"
    /\ uploaded_paper_path = None
    /\ current_paper_data = None
    /\ \E entities \in RelatedEntityLists :
          supplied = [op |-> "strategy", entities |-> entities]
    /\ response = NoResponse

RelatedQuery ==
    /\ response.op = "none"
    /\ response' = [op |-> "related",
                    evidence |-> _handle_related_query(graph, supplied.entities)]
    /\ UNCHANGED <<graph, globals, supplied>>

NextRelated == RelatedQuery

SpecRelated == InitRelated /\ [][NextRelated]_vars

\* the sets of min(5, number of nodes) nodes such that no node outside has a
\* higher degree than a node inside
HighestDegreeSets ==
    {T \in SUBSET NodeSet(graph) :
        /\ Cardinality(T) = IF Cardinality(NodeSet(graph)) < 5
                               THEN Cardinality(NodeSet(graph)) ELSE 5
        /\ \A n \in T, m \in NodeSet(graph) \ T : degree(graph, m) <= degree(graph, n)}

\* C24: the Related strategy seeds with the matched nodes or, when none
\* matched, with the 5 highest-degree nodes (all nodes when fewer than 5);
\* every seed and every neighbour of a seed is returned and nothing beyond
\* two hops from the seeds; the returned edges are exactly the graph edges
\* with both endpoints returned, and count is the number of returned nodes.
C24_RelatedSeedsAndInducedEdges ==
    response.op = "related" =>
        LET nodes == response.evidence.nodes
            edges == response.evidence.edges
        IN  /\ \E seeds \in (IF MatchedNodes # {} THEN {MatchedNodes} ELSE HighestDegreeSets) :
                   /\ seeds \subseteq nodes
                   /\ Hop(graph, seeds) \subseteq nodes
                   /\ nodes \subseteq Hop(graph, Hop(graph, seeds))
            /\ {<<edges[i].source, edges[i].target>> : i \in 1..Len(edges)}
                   = {e \in EdgeSet(graph) : e[1] \in nodes /\ e[2] \in nodes}
            /\ \A i, j \in 1..Len(edges) :
                   (edges[i].source = edges[j].source /\ edges[i].target = edges[j].target)
                      => i = j
            /\ response.evidence.count = Cardinality(nodes)

\* a Related query that matches nothing on a graph of more than 5 nodes of
\* different degrees, answered with some but not all nodes of the graph
C24_Witness ==
    /\ response.op = "related"
    /\ MatchedNodes = {}
    /\ Cardinality(NodeSet(graph)) > 5
    /\ \E n, m \in NodeSet(graph) :
          /\ n \in response.evidence.nodes
          /\ m \notin response.evidence.nodes
          /\ degree(graph, m) < degree(graph, n)
    /\ response.evidence.edges # <<>>

(***************************************************************************)
(* Summary on its own: feature graphs and unified graphs of up to           *)
(* MaxSummaryNodes code nodes, where only some of the last code nodes have  *)
(* edges, so that more than 10 nodes compete for the key concepts           *)
(***************************************************************************)
MaxSummaryNodes == 11

\* the sets of indices among the last four of 1..k
LastChosen(k) == SUBSET {j \in 1..k : j > k - 4}

SummaryFeatureGraphs ==
    {build_graph(EmptyGraph, [features |-> DualFeatures(k),
                              relationships |-> FanRelationships(k, chosen)]) :
        <<k, chosen>> \in {<<k, chosen>> \in (0..MaxSummaryNodes) \X SUBSET (1..MaxSummaryNodes) :
                               chosen \in LastChosen(k)}}

\* p paper nodes in a chain, k code nodes, paper_section_0 mapped to the
\* chosen code nodes
SummaryUnifiedGraph(p, k, chosen) ==
    LET mapped == SelectSeq([j \in 1..k |-> j], LAMBDA j : j \in chosen)
    IN  build_unified_graph(EmptyGraph,
            [i \in 1..p |-> PaperNode(PaperIdSeq[i])],
            DualFeatures(k),
            [i \in 1..Len(mapped) |->
                [source |-> PaperIdSeq[1], target |-> FeatureIds[mapped[i] + 1],
                 type |-> "implements", confidence |-> None]],
            [i \in 1..(p - 1) |->
                [source |-> PaperIdSeq[i], target |-> PaperIdSeq[i + 1],
                 type |-> "builds_on", confidence |-> None]])

SummaryUnifiedGraphs ==
    {SummaryUnifiedGraph(t[1], t[2], t[3]) :
        t \in {t \in (1..2) \X (0..MaxSummaryNodes) \X SUBSET (1..MaxSummaryNodes) :
                  t[3] \in LastChosen(t[2])}}

InitSummary ==
    /\ graph \in SummaryFeatureGraphs \cup SummaryUnifiedGraphs
    /\ parsed_data = "parsed"
    /\ current_graph = "graph"
    /\ current_query_engine = "engine"
    /\ uploaded_repo_path = "repo"
    /\ uploaded_paper_path = None
    /\ current_paper_data = None
    /\ supplied = [op |-> "strategy", entities |-> <<>>]
    /\ response = NoResponse

SummaryQuery ==
    /\ response.op = "none"
    /\ response' = [op |-> "summary", evidence |-> _handle_summary_query(graph)]
    /\ UNCHANGED <<graph, globals, supplied>>

NextSummary == SummaryQuery

SpecSummary == InitSummary /\ [][NextSummary]_vars

\* the edges of the graph into n, out of n
EdgesInto(n) == {e \in EdgeSet(graph) : e[2] = n}
EdgesOutOf(n) == {e \in EdgeSet(graph) : e[1] = n}

\* C25: the Summary strategy lists min(10, number of nodes) key concepts such
\* that no unlisted node has a higher total degree than a listed one, each
\* with its actual in-degree and out-degree; bridge_nodes is empty when the
\* graph has 2 nodes or fewer and has at most 5 entries otherwise;
\* graph_stats reports the actual numbers of nodes, edges, paper-modality
\* nodes and code-modality nodes.
C25_SummaryOfGraph ==
    response.op = "summary" =>
        LET key_concepts == response.evidence.key_concepts
            listed == {key_concepts[i].node : i \in 1..Len(key_concepts)}
            total == Cardinality(NodeSet(graph))
            stats == response.evidence.graph_stats
        IN  /\ Len(key_concepts) = IF total < 10 THEN total ELSE 10
            /\ Cardinality(listed) = Len(key_concepts)
            /\ listed \subseteq NodeSet(graph)
            /\ \A n \in listed, m \in NodeSet(graph) \ listed :
                   Cardinality(EdgesInto(m)) + Cardinality(EdgesOutOf(m))
                      <= Cardinality(EdgesInto(n)) + Cardinality(EdgesOutOf(n))
            /\ \A i \in 1..Len(key_concepts) :
                   /\ key_concepts[i].in_degree = Cardinality(EdgesInto(key_concepts[i].node))
                   /\ key_concepts[i].out_degree = Cardinality(EdgesOutOf(key_concepts[i].node))
            /\ total <= 2 => response.evidence.bridge_nodes = <<>>
            /\ Len(response.evidence.bridge_nodes) <= 5
            /\ stats.total_nodes = total
            /\ stats.total_edges = Cardinality(EdgeSet(graph))
            /\ stats.paper_nodes =
                   Cardinality({n \in NodeSet(graph) : graph.data[n].modality = "paper"})
            /\ stats.code_nodes =
                   Cardinality({n \in NodeSet(graph) : graph.data[n].modality = "code"})

\* a summary of a unified graph of more than 10 nodes in which a node with
\* edges comes after ten nodes in node order, some without any edge
C25_Witness ==
    /\ response.op = "summary"
    /\ Len(graph.nodes) > 10
    /\ response.evidence.graph_stats.paper_nodes > 0
    /\ \E i \in 11..Len(graph.nodes) :
          /\ degree(graph, graph.nodes[i]) > 0
          /\ graph.nodes[i] \in response.evidence.nodes
    /\ \E i \in 1..10 : graph.nodes[i] \notin response.evidence.nodes
    /\ Len(response.evidence.bridge_nodes) = 5

(***************************************************************************)
(* The unified graph across uploads                                         *)
(***************************************************************************)
\* the edges of g between two code nodes
CodeToCodeEdges(g) ==
    {e \in EdgeSet(g) : g.data[e[1]].modality = "code" /\ g.data[e[2]].modality = "code"}

\* C26: the unified graph holds the code-to-code edges too: when a paper
\* upload follows a completed repository upload and rebuilds the graph,
\* every code-to-code relationship edge of the feature graph is still an
\* edge of the unified graph.
C26_CodeEdgesKept ==
    [][(/\ supplied.op = "upload_repository"
        /\ response.status = "ok"
        /\ response'.op = "upload_paper"
        /\ response'.status = "ok")
          => CodeToCodeEdges(graph) \subseteq EdgeSet(graph')]_vars

(***************************************************************************)
(* Routing: process_query on the example query of every strategy and on     *)
(* every trigger of the table taken as the whole query                      *)
(***************************************************************************)
\* the example query in the docstring of each strategy's handler
ExampleQueries == <<
    [label |-> "path", query |->
        <<"H","o","w"," ","i","s"," ","X"," ","i","m","p","l","e","m","e","n","t","e","d","?">>],
    [label |-> "dependency", query |->
        <<"W","h","a","t"," ","d","o","e","s"," ","X"," ","d","e","p","e","n","d"," ","o","n","?">>],
    [label |-> "gap", query |->
        <<"W","h","a","t","'","s"," ","n","o","t"," ","i","m","p","l","e","m","e","n","t","e","d","?">>],
    [label |-> "impact", query |->
        <<"W","h","a","t","'","s"," ","a","f","f","e","c","t","e","d"," ","i","f"," ","I"," ","c","h","a","n","g","e"," ","X","?">>],
    [label |-> "summary", query |->
        <<"S","u","m","m","a","r","i","z","e"," ","t","h","e"," ","a","r","c","h","i","t","e","c","t","u","r","e">>],
    [label |-> "find", query |->
        <<"W","h","e","r","e"," ","i","s"," ","X"," ","l","o","c","a","t","e","d","?">>],
    [label |-> "related", query |->
        <<"W","h","a","t","'","s"," ","r","e","l","a","t","e","d"," ","t","o"," ","X","?">>]>>

\* every trigger of query_types as a query of its own
TriggerQueries ==
    UNION {Range(query_types[i].keywords) : i \in 1..Len(query_types)}

InitRouting ==
    /\ \E pn \in GapPaperLists, cn \in EngineCodeLists :
          graph = build_unified_graph(EmptyGraph, pn, cn, <<>>, <<>>)
    /\ parsed_data = "parsed"
    /\ current_graph = "graph"
    /\ current_query_engine = "engine"
    /\ uploaded_repo_path = "repo"
    /\ uploaded_paper_path = "paper"
    /\ current_paper_data = "paper"
    /\ \E query \in TriggerQueries \cup {ExampleQueries[i].query : i \in 1..Len(ExampleQueries)} :
          supplied = [op |-> "query", query |-> query, call |-> Returned(<<"completion">>)]
    /\ response = NoResponse

NextRouting == ProcessQuery

SpecRouting == InitRouting /\ [][NextRouting]_vars

\* C27: process_query routes the example query of each strategy to that
\* strategy: the label and the evidence are those of the strategy the
\* example belongs to.
C27_ExamplesRouted ==
    response.op = "query" =>
        \A i \in 1..Len(ExampleQueries) :
            supplied.query = ExampleQueries[i].query =>
                /\ response.query_type = ExampleQueries[i].label
                /\ response.graph_evidence.type = ExampleQueries[i].label

\* C28: no trigger is shadowed: the query whose text is exactly a trigger of
\* label L is classified as L.
C28_NoTriggerShadowed ==
    response.op = "query" =>
        \A i \in 1..Len(query_types) :
            supplied.query \in Range(query_types[i].keywords) =>
                response.query_type = query_types[i].label

MappingOutputs ==
    {[paper_nodes |-> <<>>, cross_modal_edges |-> <<>>, paper_edges |-> <<>>],
     [paper_nodes |-> <<PaperNode(PaperIdSeq[1])>>,
      cross_modal_edges |-> <<[source |-> PaperIdSeq[1], target |-> FeatureIds[1],
                               type |-> "implements", confidence |-> None]>>,
      paper_edges |-> <<>>],
     [paper_nodes |-> <<PaperNode(PaperIdSeq[1]), PaperNode(PaperIdSeq[2])>>,
      cross_modal_edges |-> <<[source |-> PaperIdSeq[2], target |-> FeatureIds[2],
                               type |-> "describes", confidence |-> None]>>,
      paper_edges |-> <<[source |-> PaperIdSeq[1], target |-> PaperIdSeq[2],
                         type |-> "builds_on", confidence |-> None]>>]}

\* the process-wide state of main.py as one record
ServerState(g, pd, cg, engine, repo, paper, paper_data) ==
    [graph |-> g, parsed_data |-> pd, current_graph |-> cg,
     current_query_engine |-> engine, uploaded_repo_path |-> repo,
     uploaded_paper_path |-> paper, current_paper_data |-> paper_data]

StartState == ServerState(EmptyGraph, None, None, None, None, None, None)

\* upload_repository that leaves the feature graph as built, paper or not
repository_upload_feature_only(st, features, rels, mapper) ==
    [st EXCEPT !.uploaded_repo_path = "repo",
               !.parsed_data = "parsed",
               !.current_graph = "graph",
               !.current_query_engine = "engine",
               !.graph = build_graph(st.graph, [features |-> features,
                                                relationships |-> rels])]

\* main.upload_repository running to its end: the state it leaves, given the
\* output of feature extraction and the mapper as a function of the code
\* features it is handed
repository_upload(st, features, rels, mapper) ==
    LET feature_graph == build_graph(st.graph, [features |-> features,
                                                relationships |-> rels])
        has_paper == st.current_paper_data # None /\ st.uploaded_paper_path # None
        cf == code_features(feature_graph)
    IN  [st EXCEPT !.uploaded_repo_path = "repo",
                   !.parsed_data = "parsed",
                   !.current_graph = "graph",
                   !.current_query_engine = "engine",
                   !.graph = IF has_paper
                             THEN build_unified_graph(feature_graph, mapper[cf].paper_nodes,
                                      cf, mapper[cf].cross_modal_edges, mapper[cf].paper_edges)
                             ELSE feature_graph]

\* main.upload_paper running to its end
paper_upload(st, mapper) ==
    LET cf == code_features(st.graph)
        has_code == st.current_graph # None /\ st.parsed_data # None
    IN  [st EXCEPT !.uploaded_paper_path = "paper",
                   !.current_paper_data = "paper",
                   !.current_graph = IF has_code THEN "graph" ELSE st.current_graph,
                   !.graph = IF has_code
                             THEN build_unified_graph(st.graph, mapper[cf].paper_nodes,
                                      cf, mapper[cf].cross_modal_edges, mapper[cf].paper_edges)
                             ELSE st.graph]

\* the variables as a record
Now ==
    ServerState(graph, parsed_data, current_graph, current_query_engine,
                uploaded_repo_path, uploaded_paper_path, current_paper_data)

Becomes(st) ==
    /\ graph' = st.graph
    /\ parsed_data' = st.parsed_data
    /\ current_graph' = st.current_graph
    /\ current_query_engine' = st.current_query_engine
    /\ uploaded_repo_path' = st.uploaded_repo_path
    /\ uploaded_paper_path' = st.uploaded_paper_path
    /\ current_paper_data' = st.current_paper_data

InitOrder ==
    /\ graph = EmptyGraph
    /\ parsed_data = None
    /\ current_graph = None
    /\ current_query_engine = None
    /\ uploaded_repo_path = None
    /\ uploaded_paper_path = None
    /\ current_paper_data = None
    /\ \E features \in ServerFeatureLists, rels \in ServerRelationshipLists :
          \E mapper \in [{<<>>, code_features(build_graph(EmptyGraph,
                               [features |-> features, relationships |-> rels]))}
                            -> MappingOutputs] :
              supplied = [op |-> "uploads", features |-> features, relationships |-> rels,
                          mapper |-> mapper, done |-> <<>>]
    /\ response = NoResponse

UploadRepositoryOnce ==
    /\ "upload_repository" \notin Range(supplied.done)
    /\ Becomes(repository_upload(Now, supplied.features, supplied.relationships,
                                 supplied.mapper))
    /\ supplied' = [supplied EXCEPT !.done = Append(@, "upload_repository")]
    /\ response' = [op |-> "upload_repository", status |-> "ok"]

UploadPaperOnce ==
    /\ "upload_paper" \notin Range(supplied.done)
    /\ Becomes(paper_upload(Now, supplied.mapper))
    /\ supplied' = [supplied EXCEPT !.done = Append(@, "upload_paper")]
    /\ response' = [op |-> "upload_paper", status |-> "ok"]

NextOrder == UploadRepositoryOnce \/ UploadPaperOnce

SpecOrder == InitOrder /\ [][NextOrder]_vars

\* the state the two uploads leave when done in the other order
OtherOrder ==
    IF supplied.done[1] = "upload_repository"
    THEN repository_upload(paper_upload(StartState, supplied.mapper),
                           supplied.features, supplied.relationships, supplied.mapper)
    ELSE paper_upload(repository_upload(StartState, supplied.features,
                                        supplied.relationships, supplied.mapper),
                      supplied.mapper)

EdgeFlags(g, e) == <<g.edata[e].relation, g.edata[e].cross_modal, g.edata[e].intra_paper>>

\* C30: upload order does not matter: with collaborators that return the same
\* outputs for the same inputs, a paper upload then a repository upload
\* leaves the same unified graph (nodes, modalities, edges, edge flags) and a
\* live engine as the repository upload then the paper upload.
C30_UploadOrderIrrelevant ==
    Len(supplied.done) = 2 =>
        LET other == OtherOrder.graph
        IN  /\ NodeSet(graph) = NodeSet(other)
            /\ \A n \in NodeSet(graph) : graph.data[n].modality = other.data[n].modality
            /\ EdgeSet(graph) = EdgeSet(other)
            /\ \A e \in EdgeSet(graph) : EdgeFlags(graph, e) = EdgeFlags(other, e)
            /\ current_query_engine # None
            /\ OtherOrder.current_query_engine # None

\* the paper uploaded first, then the repository, leaving a unified graph
\* with a paper edge and a mapping from the paper to the code
C30_Witness ==
    /\ supplied.done = <<"upload_paper", "upload_repository">>
    /\ \E e \in EdgeSet(graph) : graph.edata[e].cross_modal = TRUE
    /\ \E e \in EdgeSet(graph) : graph.edata[e].intra_paper = TRUE
    /\ Len(supplied.relationships) > 0
====
